---- MODULE Spec2Model ----
(***************************************************************************)
(* Platform integration core of the ads dashboard: the per-platform OAuth  *)
(* session stores (Google Ads, TikTok, Facebook), the seat-based access    *)
(* gate and the controllers that put the two in front of the platform      *)
(* APIs.  Every await of a handler is one step of the request that runs    *)
(* it, so two requests interleave exactly where the code suspends.         *)
(***************************************************************************)
EXTENDS Integers, FiniteSets, Sequences, TLC

VARIABLES now, sessions, nextId, validRT, proc, seats, orgSubs, nextSeatId, nextSubId,
          platformSubs, platformSeats, nextPlatformSubId, nextPlatformSeatId,
          cache, nextCacheId, normalized

vars == <<now, sessions, nextId, validRT, proc, seats, orgSubs, nextSeatId, nextSubId,
          platformSubs, platformSeats, nextPlatformSubId, nextPlatformSeatId,
          cache, nextCacheId, normalized>>

\* the platform_subscriptions and platform_seats tables
platformVars == <<platformSubs, platformSeats, nextPlatformSubId, nextPlatformSeatId>>

\* the metrics cache tables
cacheVars == <<cache, nextCacheId>>

\* what no operation of the session stores writes
gateVars == <<seats, orgSubs, nextSeatId, nextSubId>>

\* what no operation on seats and subscriptions writes
sessionVars == <<now, sessions, nextId, validRT>>

(* ------------------------------ bounds --------------------------------- *)

\* expires_in of the tokens the providers issue, in clock units
TokenLifetime == 1
\* the clock runs long enough for a token issued at 0 to be seen expired
MaxTime == TokenLifetime + 1
\* primary keys the session tables hand out
MaxRows == 3
\* primary keys the seat table hands out
MaxSeats == 2
\* organization subscriptions one user checks out
MaxSubs == 1
\* ad accounts in one checkout or one add-seats request
MaxBatch == 1
\* primary keys the platform seat table hands out
MaxPlatformSeats == 3
\* primary keys the platform subscription table hands out
MaxPlatformSubs == 1
\* the largest quantity a platform checkout buys
MaxQuantity == 2
\* lifetime of a metrics cache entry, in units of the clock
CacheTtl == 1
\* primary keys the metrics cache tables hand out
MaxCacheRows == 3
\* items of one bulk listing
MaxItems == 2

Users == {1, 2}
\* the user whose TikTok and Facebook connections the session runs follow
SessionUsers == {1}
\* the user who holds the organization subscription while the gate is asked
\* about every user
Subscribers == {1}
Procs == {"p1", "p2"}
\* the request slot of the runs in which requests do not overlap
One == {"p1"}
Platforms == {"google", "tiktok", "facebook"}
Accounts == {"a", "b"}
Names == {"A"}
AccessTokens == {"t1", "t2"}
RefreshTokens == {"r1", "r2"}

\* undefined / null / not supplied
None == "none"
NoExpiry == -1
\* a date column that is null
NoDate == NoExpiry

(* --------------------------- session rows ------------------------------ *)

\* findOne found nothing
NoRow ==
  [id |-> 0, plat |-> None, userId |-> 0, accessToken |-> None,
   refreshToken |-> None, accountId |-> None, accountName |-> None,
   tokenExpiresAt |-> NoExpiry, updatedAt |-> 0]

NoArg ==
  [at |-> None, rt |-> None, acct |-> None, name |-> None, exp |-> NoExpiry]

\* no normalization has run
NoCall == [adapter |-> None, raw |-> <<>>, metrics |-> <<>>]

IdleProc ==
  [pc |-> "idle", op |-> None, plat |-> None, user |-> 0, sess |-> NoRow,
   rsess |-> NoRow, arg |-> NoArg, ret |-> NoRow, res |-> None, calls |-> 0,
   vsub |-> None, vacct |-> None, target |-> None, sub |-> 0, seat |-> 0, todo |-> <<>>, n |-> 0,
   qty |-> 0, canAdd |-> None, found |-> 0, data |-> <<>>,
   failure |-> None, msg |-> None, items |-> <<>>, outcomes |-> <<>>, out |-> <<>>]

\* JavaScript's a || b on an optional string
OrElse(a, b) == IF a # None THEN a ELSE b

\* JavaScript's a || b on an optional Date
OrElseDate(a, b) == IF a # NoExpiry THEN a ELSE b

RowsOf(plat, u) == {r \in sessions : r.plat = plat /\ r.userId = u}

\* repository.findOne({ where: { userId } }): no ORDER BY, so with several
\* matching rows the database returns any of them
FindOne(plat, u) ==
  IF RowsOf(plat, u) = {} THEN {NoRow} ELSE RowsOf(plat, u)

\* findOne({ where: { userId }, order: { updatedAt: 'DESC' } })
FindLatest(plat, u) ==
  IF RowsOf(plat, u) = {} THEN {NoRow}
  ELSE {r \in RowsOf(plat, u) : \A x \in RowsOf(plat, u) : x.updatedAt <= r.updatedAt}

\* @UpdateDateColumn: the database stamps the row it writes.  Only
\* getFacebookSession ever reads the column, so only the Facebook table's
\* column is kept.
Touch(r) == IF r.plat = "facebook" THEN [r EXCEPT !.updatedAt = now] ELSE r

\* repository.save(entity) of an entity that carries its primary key: the row
\* with that key is replaced (inserted again if it is gone); an entity equal
\* to the stored row issues no UPDATE and leaves updated_at alone
SaveRow(rows, r) ==
  IF r \in rows THEN rows
  ELSE {x \in rows : x.id # r.id} \cup {Touch(r)}

\* repository.create + save of a new entity: INSERT with a generated key
InsertRow(rows, plat, u, a) ==
  rows \cup {Touch([id |-> nextId, plat |-> plat, userId |-> u, accessToken |-> a.at,
                    refreshToken |-> a.rt, accountId |-> a.acct, accountName |-> a.name,
                    tokenExpiresAt |-> a.exp, updatedAt |-> 0])}

\* repository.delete({ userId })
DeleteRows(rows, plat, u) == {r \in rows : ~(r.plat = plat /\ r.userId = u)}

\* the expiry test as it would be if a refresh in flight held the session: it
\* passes only while no other request is refreshing the row
IsExpiredUnclaimed(r) ==
  /\ r.tokenExpiresAt # NoExpiry /\ r.tokenExpiresAt < now
  /\ \A q \in Procs :
       ~(proc[q].pc \in {"g_ref_find", "g_ref_fetch", "g_ref_save"} /\ proc[q].sess.id = r.id)

\* session.tokenExpiresAt && session.tokenExpiresAt < new Date()
IsExpired(r) == r.tokenExpiresAt # NoExpiry /\ r.tokenExpiresAt < now

Set(p, f) == proc' = [proc EXCEPT ![p] = f]

Done(q, ret, res) == [q EXCEPT !.pc = "done", !.ret = ret, !.res = res]

(* ------------------------------- Init ---------------------------------- *)

Init ==
  /\ now = 0
  /\ sessions = {}
  /\ nextId = 1
  /\ validRT = RefreshTokens
  /\ proc = [p \in Procs |-> IdleProc]
  /\ seats = {}
  /\ orgSubs = {}
  /\ nextSeatId = 1
  /\ nextSubId = 1
  /\ platformSubs = {}
  /\ platformSeats = {}
  /\ nextPlatformSubId = 1
  /\ nextPlatformSeatId = 1
  /\ cache = {}
  /\ nextCacheId = 1
  /\ normalized = NoCall

(* --------------------- clock and OAuth providers ----------------------- *)

\* Time passes between requests: a request's awaits are short against the
\* unit of the clock, which is the unit of the token lifetimes.
Tick ==
  /\ now < MaxTime
  /\ \A p \in Procs : proc[p].pc = "idle"
  /\ now' = now + 1
  /\ UNCHANGED <<sessions, nextId, validRT, proc, gateVars, platformVars, cacheVars, normalized>>

\* The provider stops honouring a refresh token (the user revokes the app
\* or the refresh token itself expires).
Revoke(r) ==
  /\ r \in validRT
  /\ validRT' = validRT \ {r}
  /\ UNCHANGED <<now, sessions, nextId, proc, gateVars, platformVars, cacheVars, normalized>>

\* The caller has its answer; the request is over.
Return(p) ==
  /\ proc[p].pc = "done"
  /\ Set(p, IdleProc)
  /\ UNCHANGED <<now, sessions, nextId, validRT, gateVars, platformVars, cacheVars, normalized>>

(* ------------------- TikTok session store (tiktok.service) ------------- *)

\* where a request that may still INSERT a session row stands
InsertPcs == {"t_fetch", "t_save_find", "t_save_write", "f_save_write", "g_cb_find", "g_cb_save"}

\* how many requests in flight may still INSERT a session row
Inserting == Cardinality({q \in Procs : proc[q].pc \in InsertPcs})

RoomToInsert == nextId + Inserting <= MaxRows

\* saveSession with the fields assigned outright, without the || fallbacks
TikTokMergeOverwrite(s, a) ==
  [s EXCEPT !.accessToken = a.at,
            !.refreshToken = a.rt,
            !.accountId = a.acct,
            !.accountName = a.name,
            !.tokenExpiresAt = a.exp]

\* the row saveSession writes over an existing session
TikTokMerge(s, a) ==
  [s EXCEPT !.accessToken = a.at,
            !.refreshToken = OrElse(a.rt, s.refreshToken),
            !.accountId = OrElse(a.acct, s.accountId),
            !.accountName = OrElse(a.name, s.accountName),
            !.tokenExpiresAt = OrElseDate(a.exp, s.tokenExpiresAt)]

\* saveSession, first await: findOneBy({ userId })
SaveSessionFind(p, u, a, op) ==
  /\ \E s \in FindOne("tiktok", u) :
       Set(p, [proc[p] EXCEPT !.pc = "t_save_write", !.op = op, !.plat = "tiktok",
                              !.user = u, !.sess = s, !.arg = a])
  /\ UNCHANGED <<now, sessions, nextId, validRT, gateVars, platformVars, cacheVars, normalized>>

\* Save(userId, tiktok, ...) called by a controller
SaveSession(p, u, a) ==
  /\ proc[p].pc = "idle"
  /\ RoomToInsert
  /\ SaveSessionFind(p, u, a, "save")

\* saveSession, second await: repository.save(session)
SaveSessionWrite(p) ==
  LET q == proc[p] IN
  /\ q.pc = "t_save_write"
  /\ IF q.sess # NoRow
       THEN /\ sessions' = SaveRow(sessions, TikTokMerge(q.sess, q.arg))
            /\ nextId' = nextId
            /\ Set(p, Done(q, Touch(TikTokMerge(q.sess, q.arg)), "ok"))
       ELSE /\ sessions' = InsertRow(sessions, "tiktok", q.user, q.arg)
            /\ nextId' = nextId + 1
            /\ \E r \in sessions' \ sessions : Set(p, Done(q, r, "ok"))
  /\ UNCHANGED <<now, validRT, gateVars, platformVars, cacheVars, normalized>>

\* getSession: findOneBy({ userId }) and nothing else
TikTokGetSession(p, u) ==
  /\ proc[p].pc = "idle"
  /\ \E s \in FindOne("tiktok", u) :
       Set(p, Done([proc[p] EXCEPT !.op = "get", !.plat = "tiktok", !.user = u, !.sess = s], s,
                   IF s = NoRow THEN "absent" ELSE "ok"))
  /\ UNCHANGED <<now, sessions, nextId, validRT, gateVars, platformVars, cacheVars, normalized>>

\* deleteSession called by the controller (explicit disconnect)
TikTokDeleteSession(p, u) ==
  /\ proc[p].pc = "idle"
  /\ sessions' = DeleteRows(sessions, "tiktok", u)
  /\ Set(p, Done([proc[p] EXCEPT !.op = "delete", !.plat = "tiktok", !.user = u], NoRow, "ok"))
  /\ UNCHANGED <<now, nextId, validRT, gateVars, platformVars, cacheVars, normalized>>

\* refreshAccessToken, first await: getSession
TikTokRefreshFind(p, u) ==
  /\ proc[p].pc = "idle"
  /\ RoomToInsert
  /\ \E s \in FindOne("tiktok", u) :
       LET q == [proc[p] EXCEPT !.op = "refresh", !.plat = "tiktok", !.user = u, !.rsess = s] IN
       IF s = NoRow THEN Set(p, Done(q, NoRow, "unauthorized"))
       ELSE IF s.refreshToken = None THEN Set(p, [q EXCEPT !.pc = "t_delete"])
       ELSE Set(p, [q EXCEPT !.pc = "t_fetch"])
  /\ UNCHANGED <<now, sessions, nextId, validRT, gateVars, platformVars, cacheVars, normalized>>

\* refreshAccessToken: POST oauth2/refresh_token/ and response.json()
TikTokRefreshFetch(p) ==
  LET q == [proc[p] EXCEPT !.calls = @ + 1] IN
  /\ proc[p].pc = "t_fetch"
  /\ \/ \* data.code = 0: the provider takes the refresh token and rotates it
        /\ q.rsess.refreshToken \in validRT
        /\ \E at \in AccessTokens, rt \in RefreshTokens :
             /\ Set(p, [q EXCEPT !.pc = "t_save_find",
                                 !.arg = [at |-> at, rt |-> rt, acct |-> q.rsess.accountId,
                                          name |-> q.rsess.accountName,
                                          exp |-> now + TokenLifetime]])
             /\ validRT' \in {validRT \cup {rt}, (validRT \ {q.rsess.refreshToken}) \cup {rt}}
     \/ \* data.code # 0: the provider answers with an error body
        /\ Set(p, [q EXCEPT !.pc = "t_delete"])
        /\ validRT' = validRT
     \/ \* fetch or response.json() throws: network error, body that is not JSON
        /\ Set(p, Done(q, NoRow, "error"))
        /\ validRT' = validRT
  /\ UNCHANGED <<now, sessions, nextId, gateVars, platformVars, cacheVars, normalized>>

\* refreshAccessToken: await this.deleteSession(userId), then throw Unauthorized
TikTokRefreshDelete(p) ==
  /\ proc[p].pc = "t_delete"
  /\ sessions' = DeleteRows(sessions, "tiktok", proc[p].user)
  /\ Set(p, Done(proc[p], NoRow, "unauthorized"))
  /\ UNCHANGED <<now, nextId, validRT, gateVars, platformVars, cacheVars, normalized>>

\* refreshAccessToken: return this.saveSession(...), its findOneBy
TikTokRefreshSave(p) ==
  /\ proc[p].pc = "t_save_find"
  /\ SaveSessionFind(p, proc[p].user, proc[p].arg, "refresh")

(* ----------------- Facebook session store (facebook.service) ----------- *)

\* the row saveFacebookSession writes over an existing session
FacebookMerge(s, a) ==
  [s EXCEPT !.accessToken = a.at,
            !.accountId = OrElse(a.acct, s.accountId),
            !.tokenExpiresAt = OrElseDate(a.exp, s.tokenExpiresAt)]

\* saveFacebookSession, first await: findOneBy({ userId })
SaveFacebookSession(p, u, a) ==
  /\ proc[p].pc = "idle"
  /\ RoomToInsert
  /\ a.rt = None /\ a.name = None
  /\ \E s \in FindOne("facebook", u) :
       Set(p, [proc[p] EXCEPT !.pc = "f_save_write", !.op = "save", !.plat = "facebook",
                              !.user = u, !.sess = s, !.arg = a])
  /\ UNCHANGED <<now, sessions, nextId, validRT, gateVars, platformVars, cacheVars, normalized>>

\* saveFacebookSession, second await: repository.save(session)
SaveFacebookSessionWrite(p) ==
  LET q == proc[p] IN
  /\ q.pc = "f_save_write"
  /\ IF q.sess # NoRow
       THEN /\ sessions' = SaveRow(sessions, FacebookMerge(q.sess, q.arg))
            /\ nextId' = nextId
            /\ Set(p, Done(q, Touch(FacebookMerge(q.sess, q.arg)), "ok"))
       ELSE /\ sessions' = InsertRow(sessions, "facebook", q.user, q.arg)
            /\ nextId' = nextId + 1
            /\ \E r \in sessions' \ sessions : Set(p, Done(q, r, "ok"))
  /\ UNCHANGED <<now, validRT, gateVars, platformVars, cacheVars, normalized>>

\* getFacebookSession: the most recently updated row of the user
GetFacebookSession(p, u) ==
  /\ proc[p].pc = "idle"
  /\ \E s \in FindLatest("facebook", u) :
       Set(p, Done([proc[p] EXCEPT !.op = "get", !.plat = "facebook", !.user = u, !.sess = s], s,
                   IF s = NoRow THEN "absent" ELSE "ok"))
  /\ UNCHANGED <<now, sessions, nextId, validRT, gateVars, platformVars, cacheVars, normalized>>

(* ------------- Google Ads session store (google-ads.service) ----------- *)

\* handleAuthCallback: POST /token with the authorization code
GoogleCallbackExchange(p, u) ==
  /\ proc[p].pc = "idle"
  /\ RoomToInsert
  /\ LET q == [proc[p] EXCEPT !.op = "callback", !.plat = "google", !.user = u] IN
     \/ \* tokenResponse.ok: refresh_token comes with it or not
        \E at \in AccessTokens, rt \in RefreshTokens \cup {None} :
          /\ Set(p, [q EXCEPT !.pc = "g_cb_find",
                              !.arg = [NoArg EXCEPT !.at = at, !.rt = rt,
                                                    !.exp = now + TokenLifetime]])
          /\ validRT' = IF rt = None THEN validRT ELSE validRT \cup {rt}
     \/ \* !tokenResponse.ok, or fetch throws
        /\ Set(p, Done(q, NoRow, "failed"))
        /\ validRT' = validRT
  /\ UNCHANGED <<now, sessions, nextId, gateVars, platformVars, cacheVars, normalized>>

\* handleAuthCallback: findOne({ where: { userId } })
GoogleCallbackFind(p) ==
  /\ proc[p].pc = "g_cb_find"
  /\ \E s \in FindOne("google", proc[p].user) :
       Set(p, [proc[p] EXCEPT !.pc = "g_cb_save", !.sess = s])
  /\ UNCHANGED <<now, sessions, nextId, validRT, gateVars, platformVars, cacheVars, normalized>>

\* the row handleAuthCallback writes over an existing session
GoogleCallbackMerge(s, a) ==
  [s EXCEPT !.accessToken = a.at,
            !.refreshToken = OrElse(a.rt, s.refreshToken),
            !.tokenExpiresAt = a.exp]

\* handleAuthCallback: sessionRepository.save(session)
GoogleCallbackSave(p) ==
  LET q == proc[p] IN
  /\ q.pc = "g_cb_save"
  /\ IF q.sess # NoRow
       THEN /\ sessions' = SaveRow(sessions, GoogleCallbackMerge(q.sess, q.arg))
            /\ nextId' = nextId
            /\ Set(p, Done(q, Touch(GoogleCallbackMerge(q.sess, q.arg)), "ok"))
       ELSE /\ sessions' = InsertRow(sessions, "google", q.user, q.arg)
            /\ nextId' = nextId + 1
            /\ \E r \in sessions' \ sessions : Set(p, Done(q, r, "ok"))
  /\ UNCHANGED <<now, validRT, gateVars, platformVars, cacheVars, normalized>>

\* getSession has returned s to the handler that awaited it: the session
\* endpoint answers with it, selectCustomer and getCampaigns go on if there
\* is a session (with a selected customer, for getCampaigns) and throw
\* Unauthorized otherwise
GetSessionReturns(q, s) ==
  CASE q.op = "select" ->
         IF s = NoRow THEN Done(q, NoRow, "unauthorized")
         ELSE [q EXCEPT !.pc = "g_sel_save", !.sess = s]
    [] q.op = "campaigns" ->
         IF s = NoRow \/ s.accountId = None THEN Done(q, NoRow, "unauthorized")
         ELSE [q EXCEPT !.pc = "g_search", !.sess = s]
    [] OTHER -> Done(q, s, IF s = NoRow THEN "absent" ELSE "ok")

\* what a failed refreshToken makes of the request that ran it: the refresh
\* endpoint returns { success: false }, getSession returns null
RefreshFailed(q) ==
  IF q.op = "refresh" THEN Done(q, NoRow, "failed") ELSE GetSessionReturns(q, NoRow)

\* refreshToken, first await: findOne({ where: { userId } })
RefreshTokenFind(p, q) ==
  /\ \E s \in FindOne("google", q.user) :
       IF s = NoRow \/ s.refreshToken = None
         THEN Set(p, RefreshFailed(q))
         ELSE Set(p, [q EXCEPT !.pc = "g_ref_fetch", !.rsess = s])
  /\ UNCHANGED <<now, sessions, nextId, validRT, gateVars, platformVars, cacheVars, normalized>>

\* POST google-ads/session/refresh: refreshToken(userId)
GoogleRefreshToken(p, u) ==
  /\ proc[p].pc = "idle"
  /\ RefreshTokenFind(p, [proc[p] EXCEPT !.op = "refresh", !.plat = "google", !.user = u])

\* getSession, first await: findOne, then the expiry test
GetSessionFind(p, q) ==
  /\ \E s \in FindOne("google", q.user) :
       IF s # NoRow /\ IsExpired(s)
         THEN Set(p, [q EXCEPT !.pc = "g_ref_find", !.sess = s])
         ELSE Set(p, GetSessionReturns([q EXCEPT !.sess = s], s))
  /\ UNCHANGED <<now, sessions, nextId, validRT, gateVars, platformVars, cacheVars, normalized>>

\* GET google-ads/session: getSession(userId)
GoogleGetSession(p, u) ==
  /\ proc[p].pc = "idle"
  /\ GetSessionFind(p, [proc[p] EXCEPT !.op = "get", !.plat = "google", !.user = u])

\* getSession: await this.refreshToken(userId), its findOne
GoogleGetSessionRefresh(p) ==
  /\ proc[p].pc = "g_ref_find"
  /\ RefreshTokenFind(p, proc[p])

\* refreshToken as it would be if it built the row from the token response
\* alone: the selected customer is not carried over
RefreshTokenFetchTokensOnly(p) ==
  LET q == [proc[p] EXCEPT !.calls = @ + 1] IN
  /\ proc[p].pc = "g_ref_fetch"
  /\ \/ /\ q.rsess.refreshToken \in validRT
        /\ \E at \in AccessTokens :
             Set(p, [q EXCEPT !.pc = "g_ref_save",
                              !.rsess = [q.rsess EXCEPT !.accessToken = at,
                                                        !.tokenExpiresAt = now + TokenLifetime,
                                                        !.accountId = None,
                                                        !.accountName = None]])
     \/ Set(p, RefreshFailed(q))
  /\ UNCHANGED <<now, sessions, nextId, validRT, gateVars, platformVars, cacheVars, normalized>>

\* refreshToken: POST /token with grant_type=refresh_token
RefreshTokenFetch(p) ==
  LET q == [proc[p] EXCEPT !.calls = @ + 1] IN
  /\ proc[p].pc = "g_ref_fetch"
  /\ \/ \* response.ok: a new access token, the refresh token stays
        /\ q.rsess.refreshToken \in validRT
        /\ \E at \in AccessTokens :
             Set(p, [q EXCEPT !.pc = "g_ref_save",
                              !.rsess = [q.rsess EXCEPT !.accessToken = at,
                                                        !.tokenExpiresAt = now + TokenLifetime]])
     \/ \* !response.ok (invalid_grant, 5xx) or fetch throws: { success: false }
        Set(p, RefreshFailed(q))
  /\ UNCHANGED <<now, sessions, nextId, validRT, gateVars, platformVars, cacheVars, normalized>>

\* refreshToken: sessionRepository.save(session)
RefreshTokenSave(p) ==
  LET q == proc[p] IN
  /\ q.pc = "g_ref_save"
  /\ sessions' = SaveRow(sessions, q.rsess)
  /\ IF q.op = "refresh"
       THEN Set(p, Done(q, Touch(q.rsess), "ok"))
       ELSE Set(p, [q EXCEPT !.pc = "g_reread"])
  /\ UNCHANGED <<now, nextId, validRT, gateVars, platformVars, cacheVars, normalized>>

\* getSession: return this.sessionRepository.findOne(...) after the refresh
GoogleGetSessionReread(p) ==
  /\ proc[p].pc = "g_reread"
  /\ \E s \in FindOne("google", proc[p].user) :
       Set(p, GetSessionReturns(proc[p], s))
  /\ UNCHANGED <<now, sessions, nextId, validRT, gateVars, platformVars, cacheVars, normalized>>

\* deleteSession: sessionRepository.delete({ userId })
GoogleDeleteSession(p, u) ==
  /\ proc[p].pc = "idle"
  /\ sessions' = DeleteRows(sessions, "google", u)
  /\ Set(p, Done([proc[p] EXCEPT !.op = "delete", !.plat = "google", !.user = u], NoRow, "ok"))
  /\ UNCHANGED <<now, nextId, validRT, gateVars, platformVars, cacheVars, normalized>>

(* ------------- seats and organization subscriptions -------------------- *)
(* subscriptions.service, organization-subscriptions.controller and the    *)
(* organization branch of the Stripe checkout webhook                      *)

\* getOrganizationSubscription(userId): the latest created subscription of
\* the user whose status is active, trialing or past_due, 0 if there is none
GetOrganizationSubscription(u) ==
  LET live == {b \in orgSubs : b.userId = u /\ b.status \in {"active", "trialing", "past_due"}}
  IN IF live = {} THEN 0
     ELSE (CHOOSE b \in live : \A c \in live : c.id <= b.id).id

\* getOrganizationSeats with the status filter left off the where clause
GetOrganizationSeatsAnyStatus(u, plat) ==
  {t \in seats : t.userId = u /\ (plat # None => t.platform = plat)}

\* getOrganizationSeats(userId, platform?): where { userId, status: 'active' }
\* and, if a platform is given, that platform
GetOrganizationSeats(u, plat) ==
  {t \in seats : t.userId = u /\ t.status = "active" /\ (plat # None => t.platform = plat)}

\* addOrganizationSeat: INSERT an active seat
AddOrganizationSeat(subId, u, acct, plat) ==
  /\ seats' = seats \cup {[id |-> nextSeatId, subId |-> subId, userId |-> u,
                           adAccountId |-> acct, platform |-> plat, status |-> "active",
                           removedAt |-> NoDate]}
  /\ nextSeatId' = nextSeatId + 1

\* deactivateOrganizationSeat(seatId): update(seatId, { status: 'removed' })
DeactivateOrganizationSeat(id) ==
  {IF t.id = id THEN [t EXCEPT !.status = "removed"] ELSE t : t \in seats}

\* updateOrganizationSubscriptionQuantity(id, quantity)
UpdateQuantity(id, k) ==
  {IF b.id = id THEN [b EXCEPT !.quantity = k] ELSE b : b \in orgSubs}

\* updateOrganizationSubscriptionStatus(id, status)
UpdateStatus(id, st) ==
  {IF b.id = id THEN [b EXCEPT !.status = st] ELSE b : b \in orgSubs}

\* seat rows the requests in flight are still to insert
SeatsToCome ==
  LET RECURSIVE Sum(_)
      Sum(P) == IF P = {} THEN 0
                ELSE LET p == CHOOSE x \in P : TRUE IN Len(proc[p].todo) + Sum(P \ {p})
  IN Sum(Procs)

RoomForSeats(k) == nextSeatId + SeatsToCome + k <= MaxSeats + 1

\* handleCheckoutSessionCompleted, type organization:
\* createOrganizationSubscription with Stripe's status and the quantity of
\* the metadata (the number of ad accounts if it is missing or 0)
CheckoutCompleted(p, u, st, qty, accts) ==
  /\ proc[p].pc = "idle"
  /\ Cardinality({b \in orgSubs : b.userId = u}) < MaxSubs
  /\ RoomForSeats(Len(accts))
  /\ orgSubs' = orgSubs \cup {[id |-> nextSubId, userId |-> u, status |-> st,
                               quantity |-> IF qty # 0 THEN qty ELSE Len(accts)]}
  /\ nextSubId' = nextSubId + 1
  /\ LET q == [proc[p] EXCEPT !.op = "checkout", !.user = u, !.sub = nextSubId,
                              !.todo = accts] IN
     Set(p, IF accts = <<>> THEN Done(q, NoRow, "ok") ELSE [q EXCEPT !.pc = "co_seat"])
  /\ UNCHANGED <<seats, nextSeatId, sessionVars, platformVars, cacheVars, normalized>>

\* the webhook's loop: addOrganizationSeat(orgSub.id, userId, adAccountIds[i],
\* name), the platform left to its default
CheckoutAddSeat(p) ==
  LET q == proc[p] IN
  /\ q.pc = "co_seat"
  /\ AddOrganizationSeat(q.sub, q.user, Head(q.todo).acct, "facebook")
  /\ Set(p, IF Tail(q.todo) = <<>> THEN Done([q EXCEPT !.todo = <<>>], NoRow, "ok")
            ELSE [q EXCEPT !.todo = Tail(q.todo)])
  /\ UNCHANGED <<orgSubs, nextSubId, sessionVars, platformVars, cacheVars, normalized>>

\* POST organization-subscriptions, first await: getOrganizationSubscription
AddSeats(p, u, accts) ==
  /\ proc[p].pc = "idle"
  /\ RoomForSeats(Len(accts))
  /\ LET q == [proc[p] EXCEPT !.op = "add-seats", !.user = u,
                              !.sub = GetOrganizationSubscription(u)] IN
     Set(p, IF q.sub = 0 THEN Done(q, NoRow, "requires-checkout")
            ELSE [q EXCEPT !.todo = accts, !.pc = IF accts = <<>> THEN "as_count" ELSE "as_seat"])
  /\ UNCHANGED <<gateVars, sessionVars, platformVars, cacheVars, normalized>>

\* POST organization-subscriptions, the loop: addOrganizationSeat with the
\* platform of the account (account.platform || body.platform || 'facebook')
AddSeatsInsert(p) ==
  LET q == proc[p] IN
  /\ q.pc = "as_seat"
  /\ AddOrganizationSeat(q.sub, q.user, Head(q.todo).acct, Head(q.todo).plat)
  /\ Set(p, [q EXCEPT !.todo = Tail(q.todo),
                      !.pc = IF Tail(q.todo) = <<>> THEN "as_count" ELSE "as_seat"])
  /\ UNCHANGED <<orgSubs, nextSubId, sessionVars, platformVars, cacheVars, normalized>>

\* POST organization-subscriptions: allSeats = getOrganizationSeats(userId)
AddSeatsCount(p) ==
  /\ proc[p].pc = "as_count"
  /\ Set(p, [proc[p] EXCEPT !.pc = "as_qty",
                            !.n = Cardinality(GetOrganizationSeats(proc[p].user, None))])
  /\ UNCHANGED <<gateVars, sessionVars, platformVars, cacheVars, normalized>>

\* POST organization-subscriptions: updateOrganizationSubscriptionQuantity
AddSeatsQuantity(p) ==
  /\ proc[p].pc = "as_qty"
  /\ orgSubs' = UpdateQuantity(proc[p].sub, proc[p].n)
  /\ Set(p, Done(proc[p], NoRow, "seats-added"))
  /\ UNCHANGED <<seats, nextSeatId, nextSubId, sessionVars, platformVars, cacheVars, normalized>>

\* DELETE organization-subscriptions, first await: getOrganizationSubscription;
\* with a seatId the seat is removed, without one the subscription is canceled
DeleteSubscriptionOrSeat(p, u, seatId) ==
  /\ proc[p].pc = "idle"
  /\ LET q == [proc[p] EXCEPT !.op = IF seatId # 0 THEN "remove-seat" ELSE "cancel",
                              !.user = u, !.seat = seatId,
                              !.sub = GetOrganizationSubscription(u)] IN
     Set(p, IF q.sub = 0 THEN Done(q, NoRow, "bad-request")
            ELSE [q EXCEPT !.pc = IF seatId # 0 THEN "rs_deact" ELSE "cancel"])
  /\ UNCHANGED <<gateVars, sessionVars, platformVars, cacheVars, normalized>>

\* DELETE with seatId: deactivateOrganizationSeat(parseInt(seatId))
RemoveSeatDeactivate(p) ==
  /\ proc[p].pc = "rs_deact"
  /\ seats' = DeactivateOrganizationSeat(proc[p].seat)
  /\ Set(p, [proc[p] EXCEPT !.pc = "rs_count"])
  /\ UNCHANGED <<orgSubs, nextSeatId, nextSubId, sessionVars, platformVars, cacheVars, normalized>>

\* DELETE with seatId: remainingSeats = getOrganizationSeats(userId)
RemoveSeatCount(p) ==
  /\ proc[p].pc = "rs_count"
  /\ Set(p, [proc[p] EXCEPT !.pc = "rs_qty",
                            !.n = Cardinality(GetOrganizationSeats(proc[p].user, None))])
  /\ UNCHANGED <<gateVars, sessionVars, platformVars, cacheVars, normalized>>

\* DELETE with seatId: updateOrganizationSubscriptionQuantity
RemoveSeatQuantity(p) ==
  /\ proc[p].pc = "rs_qty"
  /\ orgSubs' = UpdateQuantity(proc[p].sub, proc[p].n)
  /\ Set(p, Done(proc[p], NoRow, "seat-removed"))
  /\ UNCHANGED <<seats, nextSeatId, nextSubId, sessionVars, platformVars, cacheVars, normalized>>

\* DELETE without seatId: updateOrganizationSubscriptionStatus(id, 'canceled')
CancelSubscription(p) ==
  /\ proc[p].pc = "cancel"
  /\ orgSubs' = UpdateStatus(proc[p].sub, "canceled")
  /\ Set(p, Done(proc[p], NoRow, "subscription-canceled"))
  /\ UNCHANGED <<seats, nextSeatId, nextSubId, sessionVars, platformVars, cacheVars, normalized>>

(* ------------- platform subscriptions and platform seats --------------- *)
(* PlatformSubscriptionsService, PlatformSubscriptionsController and the   *)
(* platform branch of the Stripe webhooks                                   *)

\* getPlatformSubscription(userId, platform): the latest created subscription
\* of the user on the platform that is active, trialing or past_due, 0 if none
GetPlatformSubscription(u, plat) ==
  LET live == {b \in platformSubs : b.userId = u /\ b.platform = plat
                                    /\ b.status \in {"active", "trialing", "past_due"}}
  IN IF live = {} THEN 0
     ELSE (CHOOSE b \in live : \A c \in live : c.id <= b.id).id

\* countActiveSeats(subscriptionId): count({ subscriptionId, status: 'active' })
CountActiveSeats(subId) ==
  Cardinality({t \in platformSeats : t.subscriptionId = subId /\ t.status = "active"})

\* getPlatformSeat(subscriptionId, adAccountId): a row of any status
GetPlatformSeat(subId, acct) ==
  {t \in platformSeats : t.subscriptionId = subId /\ t.adAccountId = acct}

\* the unique index on (subscriptionId, adAccountId) lets the row in
UniqueSeat(subId, acct) == GetPlatformSeat(subId, acct) = {}

\* addPlatformSeat of the service: INSERT an active seat
InsertPlatformSeat(subId, u, plat, acct) ==
  /\ platformSeats' = platformSeats \cup
       {[id |-> nextPlatformSeatId, subscriptionId |-> subId, userId |-> u,
         platform |-> plat, adAccountId |-> acct, status |-> "active",
         removedAt |-> NoDate]}
  /\ nextPlatformSeatId' = nextPlatformSeatId + 1

\* canAddMoreSeats with <= where the code has <
SeatsBelowOrAtQuantity(currentSeats, quantity) == currentSeats <= quantity

\* canAddMoreSeats: return currentSeats < subscription.quantity
SeatsBelowQuantity(currentSeats, quantity) == currentSeats < quantity

\* seat rows the requests in flight may still insert
PlatformSeatsToCome ==
  LET RECURSIVE Sum(_)
      Sum(P) == IF P = {} THEN 0
                ELSE LET p == CHOOSE x \in P : TRUE IN
                     (IF proc[p].pc \in {"ps_can_find", "ps_can_count", "ps_existing", "ps_insert"}
                        THEN 1 ELSE Len(proc[p].todo)) + Sum(P \ {p})
  IN Sum(Procs)

RoomForPlatformSeats(k) == nextPlatformSeatId + PlatformSeatsToCome + k <= MaxPlatformSeats + 1

\* handleCheckoutSessionCompleted, type platform: createPlatformSubscription
\* with the quantity and the status of the checkout
PlatformCheckoutCompleted(p, u, plat, st, quantity, accts) ==
  /\ proc[p].pc = "idle"
  /\ nextPlatformSubId <= MaxPlatformSubs
  /\ RoomForPlatformSeats(Len(accts))
  /\ platformSubs' = platformSubs \cup
       {[id |-> nextPlatformSubId, userId |-> u, platform |-> plat, status |-> st,
         quantity |-> quantity]}
  /\ nextPlatformSubId' = nextPlatformSubId + 1
  /\ LET q == [proc[p] EXCEPT !.op = "platform-checkout", !.user = u, !.plat = plat,
                              !.sub = nextPlatformSubId, !.todo = accts] IN
     Set(p, IF accts = <<>> THEN Done(q, NoRow, "ok") ELSE [q EXCEPT !.pc = "pco_seat"])
  /\ UNCHANGED <<platformSeats, nextPlatformSeatId, gateVars, sessionVars, cacheVars, normalized>>

\* the webhook's loop: addPlatformSeat for adAccountIds[i]; an insert the
\* unique index refuses is caught and logged
PlatformCheckoutAddSeat(p) ==
  LET q == proc[p] IN
  /\ q.pc = "pco_seat"
  /\ IF UniqueSeat(q.sub, Head(q.todo))
       THEN InsertPlatformSeat(q.sub, q.user, q.plat, Head(q.todo))
       ELSE UNCHANGED <<platformSeats, nextPlatformSeatId>>
  /\ Set(p, IF Tail(q.todo) = <<>> THEN Done([q EXCEPT !.todo = <<>>], NoRow, "ok")
            ELSE [q EXCEPT !.todo = Tail(q.todo)])
  /\ UNCHANGED <<platformSubs, nextPlatformSubId, gateVars, sessionVars, cacheVars, normalized>>

\* handleSubscriptionDeleted: updatePlatformSubscriptionByStripeId(id,
\* { status: 'canceled' })
PlatformSubscriptionDeleted(id) ==
  /\ \E b \in platformSubs : b.id = id /\ b.status # "canceled"
  /\ platformSubs' = {IF b.id = id THEN [b EXCEPT !.status = "canceled"] ELSE b :
                        b \in platformSubs}
  /\ UNCHANGED <<proc, platformSeats, nextPlatformSubId, nextPlatformSeatId,
                 gateVars, sessionVars, cacheVars, normalized>>

\* POST subscriptions/platform/:platform/seats, first await:
\* getPlatformSubscription; BadRequest without one
AddPlatformSeat(p, u, plat, acct) ==
  /\ proc[p].pc = "idle"
  /\ RoomForPlatformSeats(1)
  /\ LET q == [proc[p] EXCEPT !.op = "add-platform-seat", !.user = u, !.plat = plat,
                              !.arg = [NoArg EXCEPT !.acct = acct],
                              !.sub = GetPlatformSubscription(u, plat)] IN
     Set(p, IF q.sub = 0 THEN Done(q, NoRow, "no-subscription")
            ELSE [q EXCEPT !.pc = "ps_can_find"])
  /\ UNCHANGED <<platformVars, gateVars, sessionVars, cacheVars, normalized>>

\* canAddMoreSeats: findOneBy({ id: subscriptionId }); false without a row
CanAddMoreSeatsFind(p) ==
  LET q == proc[p]
      found == {b \in platformSubs : b.id = q.sub} IN
  /\ q.pc = "ps_can_find"
  /\ IF found = {}
       THEN Set(p, Done([q EXCEPT !.canAdd = "false"], NoRow, "seat-limit"))
       ELSE \E b \in found : Set(p, [q EXCEPT !.qty = b.quantity, !.pc = "ps_can_count"])
  /\ UNCHANGED <<platformVars, gateVars, sessionVars, cacheVars, normalized>>

\* canAddMoreSeats: countActiveSeats and the comparison; the controller
\* throws 'Seat limit reached' on false
CanAddMoreSeatsCount(p) ==
  LET q == proc[p]
      currentSeats == CountActiveSeats(q.sub) IN
  /\ q.pc = "ps_can_count"
  /\ Set(p, IF SeatsBelowQuantity(currentSeats, q.qty)
              THEN [q EXCEPT !.n = currentSeats, !.canAdd = "true", !.pc = "ps_existing"]
              ELSE Done([q EXCEPT !.n = currentSeats, !.canAdd = "false"], NoRow, "seat-limit"))
  /\ UNCHANGED <<platformVars, gateVars, sessionVars, cacheVars, normalized>>

\* POST seats: getPlatformSeat; 'This ad account is already added' if a row
\* of any status exists
AddPlatformSeatExisting(p) ==
  LET q == proc[p] IN
  /\ q.pc = "ps_existing"
  /\ Set(p, IF GetPlatformSeat(q.sub, q.arg.acct) # {} THEN Done(q, NoRow, "already-added")
            ELSE [q EXCEPT !.pc = "ps_insert"])
  /\ UNCHANGED <<platformVars, gateVars, sessionVars, cacheVars, normalized>>

\* POST seats: addPlatformSeat; the insert fails on the unique index if the
\* row has appeared since
AddPlatformSeatInsert(p) ==
  LET q == proc[p] IN
  /\ q.pc = "ps_insert"
  /\ IF UniqueSeat(q.sub, q.arg.acct)
       THEN /\ InsertPlatformSeat(q.sub, q.user, q.plat, q.arg.acct)
            /\ Set(p, Done(q, NoRow, "ok"))
       ELSE /\ UNCHANGED <<platformSeats, nextPlatformSeatId>>
            /\ Set(p, Done(q, NoRow, "error"))
  /\ UNCHANGED <<platformSubs, nextPlatformSubId, gateVars, sessionVars, cacheVars, normalized>>

\* DELETE subscriptions/platform/:platform/seats/:adAccountId, first await:
\* getPlatformSubscription; BadRequest without one
RemovePlatformSeat(p, u, plat, acct) ==
  /\ proc[p].pc = "idle"
  /\ LET q == [proc[p] EXCEPT !.op = "remove-platform-seat", !.user = u, !.plat = plat,
                              !.arg = [NoArg EXCEPT !.acct = acct],
                              !.sub = GetPlatformSubscription(u, plat)] IN
     Set(p, IF q.sub = 0 THEN Done(q, NoRow, "no-subscription")
            ELSE [q EXCEPT !.pc = "ps_remove"])
  /\ UNCHANGED <<platformVars, gateVars, sessionVars, cacheVars, normalized>>

\* removePlatformSeat: update({ subscriptionId, adAccountId },
\* { status: 'inactive', removedAt: new Date() })
RemovePlatformSeatUpdate(p) ==
  LET q == proc[p] IN
  /\ q.pc = "ps_remove"
  /\ platformSeats' =
       {IF t.subscriptionId = q.sub /\ t.adAccountId = q.arg.acct
          THEN [t EXCEPT !.status = "inactive", !.removedAt = now] ELSE t :
        t \in platformSeats}
  /\ Set(p, Done(q, NoRow, "ok"))
  /\ UNCHANGED <<platformSubs, nextPlatformSubId, nextPlatformSeatId,
                 gateVars, sessionVars, cacheVars, normalized>>

\* GET subscriptions/platform/:platform/can-access/:adAccountId, first await:
\* getPlatformSubscription; hasAccess false without one
CheckAccess(p, u, plat, acct) ==
  /\ proc[p].pc = "idle"
  /\ LET q == [proc[p] EXCEPT !.op = "can-access", !.user = u, !.plat = plat,
                              !.arg = [NoArg EXCEPT !.acct = acct],
                              !.sub = GetPlatformSubscription(u, plat)] IN
     Set(p, IF q.sub = 0 THEN Done(q, NoRow, "no-access")
            ELSE [q EXCEPT !.pc = "ca_seat"])
  /\ UNCHANGED <<platformVars, gateVars, sessionVars, cacheVars, normalized>>

\* checkAccess: getPlatformSeat(subscription.id, adAccountId); hasAccess: !!seat
CheckAccessSeat(p) ==
  LET q == proc[p] IN
  /\ q.pc = "ca_seat"
  /\ Set(p, Done(q, NoRow, IF GetPlatformSeat(q.sub, q.arg.acct) # {} THEN "has-access"
                           ELSE "no-access"))
  /\ UNCHANGED <<platformVars, gateVars, sessionVars, cacheVars, normalized>>

(* ----------------------------- access gate ----------------------------- *)

\* TikTokService.validateSubscription: Forbidden if the user has no active
\* tiktok seat
TikTokValidateSubscription(u) ==
  IF Cardinality(GetOrganizationSeats(u, "tiktok")) = 0 THEN "forbidden" ELSE "pass"

\* GoogleAdsService.validateSubscription: Forbidden if the user has no active
\* google seat
GoogleValidateSubscription(u) ==
  IF Cardinality(GetOrganizationSeats(u, "google")) = 0 THEN "forbidden" ELSE "pass"

\* validateAdvertiserAccess with the comparison of the account ids left out
TikTokValidateAnyAdvertiser(u, advertiserId) ==
  IF \E t \in GetOrganizationSeats(u, "tiktok") : TRUE THEN "pass" ELSE "forbidden"

\* TikTokService.validateAdvertiserAccess: seats.some(seat.adAccountId === id)
TikTokValidateAdvertiserAccess(u, advertiserId) ==
  IF \E t \in GetOrganizationSeats(u, "tiktok") : t.adAccountId = advertiserId
    THEN "pass" ELSE "forbidden"

\* GoogleAdsService.validateCustomerAccess: seats.some(seat.adAccountId === id)
GoogleValidateCustomerAccess(u, customerId) ==
  IF \E t \in GetOrganizationSeats(u, "google") : t.adAccountId = customerId
    THEN "pass" ELSE "forbidden"

\* ValidateSubscription(userId, platform) called on its own
ValidateSubscription(p, u, plat) ==
  /\ proc[p].pc = "idle"
  /\ LET v == IF plat = "tiktok" THEN TikTokValidateSubscription(u)
              ELSE GoogleValidateSubscription(u) IN
     Set(p, Done([proc[p] EXCEPT !.op = "validate-subscription", !.plat = plat,
                                 !.user = u, !.vsub = v], NoRow, v))
  /\ UNCHANGED <<gateVars, sessionVars, platformVars, cacheVars, normalized>>

\* ValidateAccountAccess(userId, platform, accountId) called on its own
ValidateAccountAccess(p, u, plat, acct) ==
  /\ proc[p].pc = "idle"
  /\ LET v == IF plat = "tiktok" THEN TikTokValidateAdvertiserAccess(u, acct)
              ELSE GoogleValidateCustomerAccess(u, acct) IN
     Set(p, Done([proc[p] EXCEPT !.op = "validate-account", !.plat = plat, !.user = u,
                                 !.arg = [NoArg EXCEPT !.acct = acct], !.vacct = v],
                 NoRow, v))
  /\ UNCHANGED <<gateVars, sessionVars, platformVars, cacheVars, normalized>>

(* ------------------- TikTok controller (tiktok.controller) ------------- *)

\* GET tiktok/campaigns, first await: getSession; BadRequest without a
\* session or a selected advertiser
TikTokGetCampaigns(p, u) ==
  /\ proc[p].pc = "idle"
  /\ \E s \in FindOne("tiktok", u) :
       LET q == [proc[p] EXCEPT !.op = "campaigns", !.plat = "tiktok", !.user = u, !.sess = s] IN
       Set(p, IF s = NoRow \/ s.accountId = None THEN Done(q, NoRow, "bad-request")
              ELSE [q EXCEPT !.pc = "t_vsub"])
  /\ UNCHANGED <<gateVars, sessionVars, platformVars, cacheVars, normalized>>

\* GET tiktok/campaigns: await validateSubscription(user.userId)
TikTokCampaignsValidateSubscription(p) ==
  LET q == [proc[p] EXCEPT !.vsub = TikTokValidateSubscription(proc[p].user)] IN
  /\ proc[p].pc = "t_vsub"
  /\ Set(p, IF q.vsub = "forbidden" THEN Done(q, NoRow, "forbidden")
            ELSE [q EXCEPT !.pc = "t_vacct"])
  /\ UNCHANGED <<gateVars, sessionVars, platformVars, cacheVars, normalized>>

\* GET tiktok/campaigns: await validateAdvertiserAccess(userId, session.advertiserId)
TikTokCampaignsValidateAdvertiser(p) ==
  LET q == [proc[p] EXCEPT !.vacct = TikTokValidateAdvertiserAccess(proc[p].user,
                                                                     proc[p].sess.accountId)] IN
  /\ proc[p].pc = "t_vacct"
  /\ Set(p, IF q.vacct = "forbidden" THEN Done(q, NoRow, "forbidden")
            ELSE [q EXCEPT !.pc = "t_call"])
  /\ UNCHANGED <<gateVars, sessionVars, platformVars, cacheVars, normalized>>

\* GET tiktok/campaigns: tiktokService.getCampaigns(accessToken, advertiserId),
\* the call to campaign/get/ with advertiser_id
TikTokCampaignsCall(p) ==
  /\ proc[p].pc = "t_call"
  /\ \E r \in {"ok", "platform-error"} :
       Set(p, Done([proc[p] EXCEPT !.target = proc[p].sess.accountId], NoRow, r))
  /\ UNCHANGED <<gateVars, sessionVars, platformVars, cacheVars, normalized>>

\* GET tiktok/campaigns/:id, first await: getSession; BadRequest without a
\* session.  owner is the ad account the campaign of the id belongs to.
TikTokGetCampaign(p, u, owner) ==
  /\ proc[p].pc = "idle"
  /\ \E s \in FindOne("tiktok", u) :
       LET q == [proc[p] EXCEPT !.op = "campaign", !.plat = "tiktok", !.user = u, !.sess = s,
                                !.arg = [NoArg EXCEPT !.acct = owner]] IN
       Set(p, IF s = NoRow THEN Done(q, NoRow, "bad-request")
              ELSE [q EXCEPT !.pc = "t_call1"])
  /\ UNCHANGED <<gateVars, sessionVars, platformVars, cacheVars, normalized>>

\* GET tiktok/campaigns/:id: tiktokService.getCampaign(accessToken, id), the
\* call to campaign/get/ with campaign_ids
TikTokCampaignCall(p) ==
  /\ proc[p].pc = "t_call1"
  /\ \E r \in {"ok", "platform-error"} :
       Set(p, Done([proc[p] EXCEPT !.target = proc[p].arg.acct], NoRow, r))
  /\ UNCHANGED <<gateVars, sessionVars, platformVars, cacheVars, normalized>>

(* --------------- Google Ads controller (google-ads.controller) --------- *)

\* POST google-ads/customers/select, first await: validateSubscription
GoogleSelectCustomer(p, u, customerId, customerName) ==
  /\ proc[p].pc = "idle"
  /\ LET q == [proc[p] EXCEPT !.op = "select", !.plat = "google", !.user = u,
                              !.vsub = GoogleValidateSubscription(u),
                              !.arg = [NoArg EXCEPT !.acct = customerId, !.name = customerName]] IN
     Set(p, IF q.vsub = "forbidden" THEN Done(q, NoRow, "forbidden")
            ELSE [q EXCEPT !.pc = "g_get"])
  /\ UNCHANGED <<gateVars, sessionVars, platformVars, cacheVars, normalized>>

\* GET google-ads/campaigns, first await: validateSubscription
GoogleGetCampaigns(p, u) ==
  /\ proc[p].pc = "idle"
  /\ LET q == [proc[p] EXCEPT !.op = "campaigns", !.plat = "google", !.user = u,
                              !.vsub = GoogleValidateSubscription(u)] IN
     Set(p, IF q.vsub = "forbidden" THEN Done(q, NoRow, "forbidden")
            ELSE [q EXCEPT !.pc = "g_get"])
  /\ UNCHANGED <<gateVars, sessionVars, platformVars, cacheVars, normalized>>

\* selectCustomer and getCampaigns of the service: await this.getSession(userId)
GoogleServiceGetSession(p) ==
  /\ proc[p].pc = "g_get"
  /\ GetSessionFind(p, proc[p])

\* the name selectCustomer stores when none is given: `Account ${customerId}`
AccountLabel(customerId) == "Account " \o customerId

\* selectCustomer: set customerId and customerName, sessionRepository.save
GoogleSelectSave(p) ==
  LET q == proc[p]
      r == [q.sess EXCEPT !.accountId = q.arg.acct,
                          !.accountName = OrElse(q.arg.name, AccountLabel(q.arg.acct))] IN
  /\ q.pc = "g_sel_save"
  /\ sessions' = SaveRow(sessions, r)
  /\ Set(p, Done(q, Touch(r), "ok"))
  /\ UNCHANGED <<now, nextId, validRT, gateVars, platformVars, cacheVars, normalized>>

\* getCampaigns: makeSearchRequest(session, session.customerId, query)
GoogleSearch(p) ==
  /\ proc[p].pc = "g_search"
  /\ \E r \in {"ok", "platform-error"} :
       Set(p, Done([proc[p] EXCEPT !.target = proc[p].sess.accountId], NoRow, r))
  /\ UNCHANGED <<gateVars, sessionVars, platformVars, cacheVars, normalized>>

(* ----------------------- session specifications ---------------------- *)

\* what a caller passes to Save: every optional field present or not, the
\* expiry computed from the provider's expires_in
SaveArgs ==
  {[at |-> at, rt |-> rt, acct |-> acct, name |-> name, exp |-> exp] :
     at \in AccessTokens, rt \in RefreshTokens \cup {None},
     acct \in {"a", None}, name \in Names \cup {None},
     exp \in {NoExpiry, now + TokenLifetime}}

\* the TikTok session store, one request at a time
Next ==
  \/ Tick
  \/ \E r \in RefreshTokens : Revoke(r)
  \/ \E p \in One : Return(p)
  \/ \E p \in One, u \in SessionUsers, a \in SaveArgs : SaveSession(p, u, a)
  \/ \E p \in One : SaveSessionWrite(p)
  \/ \E p \in One, u \in SessionUsers : TikTokGetSession(p, u)
  \/ \E p \in One, u \in SessionUsers : TikTokDeleteSession(p, u)
  \/ \E p \in One, u \in SessionUsers : TikTokRefreshFind(p, u)
  \/ \E p \in One : TikTokRefreshFetch(p)
  \/ \E p \in One : TikTokRefreshDelete(p)
  \/ \E p \in One : TikTokRefreshSave(p)

Spec == Init /\ [][Next]_vars

\* the Google Ads session store, one request at a time
NextGoogle ==
  \/ Tick
  \/ \E r \in RefreshTokens : Revoke(r)
  \/ \E p \in One : Return(p)
  \/ \E p \in One, u \in Users : GoogleCallbackExchange(p, u)
  \/ \E p \in One : GoogleCallbackFind(p)
  \/ \E p \in One : GoogleCallbackSave(p)
  \/ \E p \in One, u \in Users : GoogleRefreshToken(p, u)
  \/ \E p \in One, u \in Users : GoogleGetSession(p, u)
  \/ \E p \in One : GoogleGetSessionRefresh(p)
  \/ \E p \in One : RefreshTokenFetch(p)
  \/ \E p \in One : RefreshTokenSave(p)
  \/ \E p \in One : GoogleGetSessionReread(p)
  \/ \E p \in One, u \in Users : GoogleDeleteSession(p, u)

SpecGoogle == Init /\ [][NextGoogle]_vars

\* Save on the TikTok and Facebook stores, one request at a time
NextSeq ==
  \/ Tick
  \/ \E p \in One : Return(p)
  \/ \E p \in One, u \in SessionUsers, a \in SaveArgs : SaveSession(p, u, a)
  \/ \E p \in One : SaveSessionWrite(p)
  \/ \E p \in One, u \in SessionUsers, a \in SaveArgs : SaveFacebookSession(p, u, a)
  \/ \E p \in One : SaveFacebookSessionWrite(p)
  \/ \E p \in One, u \in SessionUsers : GetFacebookSession(p, u)

SpecSeq == Init /\ [][NextSeq]_vars

\* what an OAuth callback passes to Save when the provider returns every field
CallbackArgs ==
  {a \in SaveArgs : a.rt # None /\ a.acct # None /\ a.name # None /\ a.exp # NoExpiry}

\* two connect requests whose awaits interleave
NextRace ==
  \/ \E p \in Procs : Return(p)
  \/ \E p \in Procs, u \in SessionUsers, a \in CallbackArgs : SaveSession(p, u, a)
  \/ \E p \in Procs : SaveSessionWrite(p)
  \/ \E p \in Procs, u \in SessionUsers : GoogleCallbackExchange(p, u)
  \/ \E p \in Procs : GoogleCallbackFind(p)
  \/ \E p \in Procs : GoogleCallbackSave(p)

SpecRace == Init /\ [][NextRace]_vars

\* Google Ads requests of one user whose awaits interleave, over the session
\* a callback stored
NextGoogleRace ==
  \/ Tick
  \/ \E p \in Procs : Return(p)
  \/ \E p \in One, u \in SessionUsers : GoogleCallbackExchange(p, u)
  \/ \E p \in One : GoogleCallbackFind(p)
  \/ \E p \in One : GoogleCallbackSave(p)
  \/ \E p \in Procs, u \in SessionUsers : GoogleGetSession(p, u)
  \/ \E p \in Procs : GoogleGetSessionRefresh(p)
  \/ \E p \in Procs : RefreshTokenFetch(p)
  \/ \E p \in Procs : RefreshTokenSave(p)
  \/ \E p \in Procs : GoogleGetSessionReread(p)

SpecGoogleRace == Init /\ [][NextGoogleRace]_vars

\* TikTok refresh requests of one user whose awaits interleave, over the
\* session the connect flow stored
NextTikTokRace ==
  \/ \E p \in Procs : Return(p)
  \/ \E p \in One, u \in SessionUsers, a \in CallbackArgs : SaveSession(p, u, a)
  \/ \E p \in Procs : SaveSessionWrite(p)
  \/ \E p \in Procs, u \in SessionUsers : TikTokRefreshFind(p, u)
  \/ \E p \in Procs : TikTokRefreshFetch(p)
  \/ \E p \in Procs : TikTokRefreshDelete(p)
  \/ \E p \in Procs : TikTokRefreshSave(p)

SpecTikTokRace == Init /\ [][NextTikTokRace]_vars

\* what the connect flow and POST advertisers/select pass to saveSession
GateArgs ==
  {a \in SaveArgs : a.at = "t1" /\ a.rt = None /\ a.name = None /\ a.exp = NoExpiry}

\* the platforms POST organization-subscriptions names for its accounts
SeatPlatforms == {"google", "tiktok"}
\* the ad accounts of one add-seats request
Batches ==
  UNION {[1..k -> [acct : Accounts, plat : SeatPlatforms]] : k \in 0..MaxBatch}
\* the ad accounts of one checkout; the webhook takes no platform from them
CheckoutBatches == {<<>>, <<[acct |-> "a", plat |-> "facebook"]>>}
CheckoutStatuses == {"active", "trialing"}

\* seats, subscriptions and the gate, one request at a time
NextGate ==
  \/ \E p \in One : Return(p)
  \/ \E p \in One, u \in Subscribers, st \in CheckoutStatuses, k \in 0..1, b \in CheckoutBatches :
       CheckoutCompleted(p, u, st, k, b)
  \/ \E p \in One : CheckoutAddSeat(p)
  \/ \E p \in One, u \in Subscribers, b \in Batches : AddSeats(p, u, b)
  \/ \E p \in One : AddSeatsInsert(p)
  \/ \E p \in One : AddSeatsCount(p)
  \/ \E p \in One : AddSeatsQuantity(p)
  \/ \E p \in One, u \in Subscribers, id \in 0..MaxSeats : DeleteSubscriptionOrSeat(p, u, id)
  \/ \E p \in One : RemoveSeatDeactivate(p)
  \/ \E p \in One : RemoveSeatCount(p)
  \/ \E p \in One : RemoveSeatQuantity(p)
  \/ \E p \in One : CancelSubscription(p)
  \/ \E p \in One, u \in Users, plat \in {"google", "tiktok"} : ValidateSubscription(p, u, plat)
  \/ \E p \in One, u \in Users, plat \in {"google", "tiktok"}, acct \in Accounts :
       ValidateAccountAccess(p, u, plat, acct)

SpecGate == Init /\ [][NextGate]_vars

\* the TikTok handlers behind the gate over the seats of one subscriber
NextGateTikTok ==
  \/ \E p \in One : Return(p)
  \/ \E p \in One, u \in SessionUsers, a \in GateArgs : SaveSession(p, u, a)
  \/ \E p \in One : SaveSessionWrite(p)
  \/ \E p \in One, u \in Subscribers, st \in CheckoutStatuses, b \in CheckoutBatches :
       CheckoutCompleted(p, u, st, 0, b)
  \/ \E p \in One : CheckoutAddSeat(p)
  \/ \E p \in One, u \in Subscribers, b \in Batches : AddSeats(p, u, b)
  \/ \E p \in One : AddSeatsInsert(p)
  \/ \E p \in One : AddSeatsCount(p)
  \/ \E p \in One : AddSeatsQuantity(p)
  \/ \E p \in One, u \in SessionUsers : TikTokGetCampaigns(p, u)
  \/ \E p \in One : TikTokCampaignsValidateSubscription(p)
  \/ \E p \in One : TikTokCampaignsValidateAdvertiser(p)
  \/ \E p \in One : TikTokCampaignsCall(p)
  \/ \E p \in One, u \in SessionUsers, owner \in Accounts : TikTokGetCampaign(p, u, owner)
  \/ \E p \in One : TikTokCampaignCall(p)

\* seats and subscriptions of two subscribers, one request at a time
NextSeatOwners ==
  \/ \E p \in One : Return(p)
  \/ \E p \in One, u \in Users, st \in CheckoutStatuses, b \in CheckoutBatches :
       CheckoutCompleted(p, u, st, 0, b)
  \/ \E p \in One : CheckoutAddSeat(p)
  \/ \E p \in One, u \in Users, b \in Batches : AddSeats(p, u, b)
  \/ \E p \in One : AddSeatsInsert(p)
  \/ \E p \in One : AddSeatsCount(p)
  \/ \E p \in One : AddSeatsQuantity(p)
  \/ \E p \in One, u \in Users, id \in 1..MaxSeats : DeleteSubscriptionOrSeat(p, u, id)
  \/ \E p \in One : RemoveSeatDeactivate(p)
  \/ \E p \in One : RemoveSeatCount(p)
  \/ \E p \in One : RemoveSeatQuantity(p)

SpecSeatOwners == Init /\ [][NextSeatOwners]_vars

\* add-seats and remove-seat requests of one subscriber whose awaits
\* interleave, on a subscription whose checkout carried no ad account
NextSeatsRace ==
  \/ \E p \in Procs : Return(p)
  \/ \E p \in One, u \in Subscribers, st \in CheckoutStatuses, k \in 0..1 :
       CheckoutCompleted(p, u, st, k, <<>>)
  \/ \E p \in Procs, u \in Subscribers, b \in Batches : AddSeats(p, u, b)
  \/ \E p \in Procs : AddSeatsInsert(p)
  \/ \E p \in Procs : AddSeatsCount(p)
  \/ \E p \in Procs : AddSeatsQuantity(p)
  \/ \E p \in Procs, u \in Subscribers, id \in 1..MaxSeats : DeleteSubscriptionOrSeat(p, u, id)
  \/ \E p \in Procs : RemoveSeatDeactivate(p)
  \/ \E p \in Procs : RemoveSeatCount(p)
  \/ \E p \in Procs : RemoveSeatQuantity(p)

SpecSeatsRace == Init /\ [][NextSeatsRace]_vars

SpecGateTikTok == Init /\ [][NextGateTikTok]_vars

\* the gated Google Ads handlers over the seats of one subscriber
NextGateGoogle ==
  \/ \E p \in One : Return(p)
  \/ \E p \in One, u \in SessionUsers : GoogleCallbackExchange(p, u)
  \/ \E p \in One : GoogleCallbackFind(p)
  \/ \E p \in One : GoogleCallbackSave(p)
  \/ \E p \in One, u \in Subscribers, st \in CheckoutStatuses, b \in CheckoutBatches :
       CheckoutCompleted(p, u, st, 0, b)
  \/ \E p \in One : CheckoutAddSeat(p)
  \/ \E p \in One, u \in Subscribers, b \in Batches : AddSeats(p, u, b)
  \/ \E p \in One : AddSeatsInsert(p)
  \/ \E p \in One : AddSeatsCount(p)
  \/ \E p \in One : AddSeatsQuantity(p)
  \/ \E p \in One, u \in SessionUsers, c \in Accounts, n \in Names \cup {None} :
       GoogleSelectCustomer(p, u, c, n)
  \/ \E p \in One, u \in SessionUsers : GoogleGetCampaigns(p, u)
  \/ \E p \in One : GoogleServiceGetSession(p)
  \/ \E p \in One : GoogleSelectSave(p)
  \/ \E p \in One : GoogleSearch(p)

SpecGateGoogle == Init /\ [][NextGateGoogle]_vars

\* what a connect flow passes to saveSession: tokens and expiry, the
\* advertiser with its name or no advertiser yet
ConnectArgs ==
  {a \in SaveArgs : /\ a.at = "t1" /\ a.rt = "r1" /\ a.exp # NoExpiry
                    /\ (a.acct = None) = (a.name = None)}

\* sessions with an account selected and the refresh endpoints of TikTok and
\* Google Ads, one request at a time
NextRefresh ==
  \/ \E p \in One : Return(p)
  \/ \E p \in One, u \in SessionUsers, a \in ConnectArgs : SaveSession(p, u, a)
  \/ \E p \in One : SaveSessionWrite(p)
  \/ \E p \in One, u \in SessionUsers : TikTokRefreshFind(p, u)
  \/ \E p \in One : TikTokRefreshFetch(p)
  \/ \E p \in One : TikTokRefreshDelete(p)
  \/ \E p \in One : TikTokRefreshSave(p)
  \/ \E p \in One, u \in SessionUsers : GoogleCallbackExchange(p, u)
  \/ \E p \in One : GoogleCallbackFind(p)
  \/ \E p \in One : GoogleCallbackSave(p)
  \/ \E p \in One, u \in Subscribers : CheckoutCompleted(p, u, "active", 0, <<>>)
  \/ \E p \in One, u \in Subscribers : AddSeats(p, u, <<[acct |-> "a", plat |-> "google"]>>)
  \/ \E p \in One : AddSeatsInsert(p)
  \/ \E p \in One : AddSeatsCount(p)
  \/ \E p \in One : AddSeatsQuantity(p)
  \/ \E p \in One, u \in SessionUsers, n \in Names \cup {None} :
       GoogleSelectCustomer(p, u, "a", n)
  \/ \E p \in One : GoogleServiceGetSession(p)
  \/ \E p \in One : GoogleSelectSave(p)
  \/ \E p \in One, u \in SessionUsers : GoogleRefreshToken(p, u)
  \/ \E p \in One : RefreshTokenFetch(p)
  \/ \E p \in One : RefreshTokenSave(p)

SpecRefresh == Init /\ [][NextRefresh]_vars

(* ------------------------- JavaScript values --------------------------- *)
(* A value is a record: k = "num" is the finite number n/d in lowest terms  *)
(* (an exact rational stands for the double), "nan" and "inf" are NaN and   *)
(* +-Infinity (sign in n), "undef" is undefined, "absent" is a key the      *)
(* object does not have, "str" is the string s, one character per element.  *)

RECURSIVE Gcd(_, _)
Gcd(a, b) == IF b = 0 THEN a ELSE Gcd(b, a % b)

Num(n, d) ==
  LET Abs(i) == IF i < 0 THEN -i ELSE i IN
  CHOOSE r \in {[k |-> "num", n |-> a \div Gcd(Abs(a), b), d |-> b \div Gcd(Abs(a), b),
                 s |-> <<>>] : a \in {n}, b \in {d}} : TRUE
Zero == Num(0, 1)
NaN == [k |-> "nan", n |-> 0, d |-> 1, s |-> <<>>]
Infinity(sign) == [k |-> "inf", n |-> sign, d |-> 1, s |-> <<>>]
Undefined == [k |-> "undef", n |-> 0, d |-> 1, s |-> <<>>]
Absent == [k |-> "absent", n |-> 0, d |-> 1, s |-> <<>>]
Str(s) == [k |-> "str", n |-> 0, d |-> 1, s |-> s]

\* the value of an expression that is evaluated once and then named: S is
\* the singleton {body : name \in {expression}}
The(S) == CHOOSE r \in S : TRUE

\* ToBoolean: undefined, "", 0 and NaN are falsy
Truthy(x) ==
  The({CASE v.k = "str" -> v.s # <<>>
         [] v.k = "num" -> v.n # 0
         [] v.k = "inf" -> TRUE
         [] OTHER -> FALSE : v \in {x}})

\* a || b
JsOr(x, y) == The({IF Truthy(a) THEN a ELSE b : a \in {x}, b \in {y}})

\* the decimal literal at the head of a string: sign, integer digits, and the
\* fraction digits behind a dot; next is the first position not read
Scan(s) ==
  LET D(c) == CASE c = "0" -> 0 [] c = "1" -> 1 [] c = "2" -> 2 [] c = "3" -> 3
                [] c = "4" -> 4 [] c = "5" -> 5 [] c = "6" -> 6 [] c = "7" -> 7
                [] c = "8" -> 8 [] c = "9" -> 9 [] OTHER -> -1
      start == IF s # <<>> /\ s[1] \in {"+", "-"} THEN 2 ELSE 1
      RECURSIVE Run(_, _, _, _)
      Run(i, v, cnt, scale) ==
        IF i <= Len(s) /\ D(s[i]) >= 0 THEN Run(i + 1, v * 10 + D(s[i]), cnt + 1, scale * 10)
        ELSE [v |-> v, cnt |-> cnt, scale |-> scale, next |-> i]
  IN The({[sign |-> IF start = 2 /\ s[1] = "-" THEN -1 ELSE 1, int |-> int, frac |-> frac] :
          int \in {Run(start, 0, 0, 1)},
          frac \in {The({IF int.next <= Len(s) /\ s[int.next] = "."
                           THEN Run(int.next + 1, 0, 0, 1)
                           ELSE [v |-> 0, cnt |-> 0, scale |-> 1, next |-> int.next] :
                         int \in {Run(start, 0, 0, 1)}})}})

\* parseInt(v, 10): the integer digits at the head of String(v), NaN without
\* one; String of a number is its decimal literal, String(undefined) has no digit
ParseInt(x) ==
  The({CASE v.k = "str" -> IF c.int.cnt = 0 THEN NaN ELSE Num(c.sign * c.int.v, 1)
         [] v.k = "num" -> Num(v.n \div v.d, 1)
         [] OTHER -> NaN : v \in {x}, c \in {The({Scan(v.s) : v \in {x}})}})

\* parseFloat(v): the decimal literal at the head of String(v), NaN without one
ParseFloat(x) ==
  The({CASE v.k = "str" ->
              IF c.int.cnt = 0 /\ c.frac.cnt = 0 THEN NaN
              ELSE Num(c.sign * (c.int.v * c.frac.scale + c.frac.v), c.frac.scale)
         [] v.k \in {"num", "inf"} -> v
         [] OTHER -> NaN : v \in {x}, c \in {The({Scan(v.s) : v \in {x}})}})

\* ToNumber, the conversion an arithmetic operator applies to an operand: a
\* string must be a numeric literal to its end, "" is 0, undefined is NaN
ToNumber(x) ==
  The({CASE v.k = "str" -> IF v.s = <<>> THEN Zero
                           ELSE IF Scan(v.s).frac.next <= Len(v.s) THEN NaN
                           ELSE ParseFloat(v)
         [] v.k \in {"num", "inf", "nan"} -> v
         [] OTHER -> NaN : v \in {x}})

\* a * b on doubles
Mul(x, y) ==
  LET Abs(i) == IF i < 0 THEN -i ELSE i
      Sgn(i) == IF i < 0 THEN -1 ELSE 1 IN
  The({CASE a.k = "nan" \/ b.k = "nan" -> NaN
         [] a.k = "inf" \/ b.k = "inf" ->
              IF a.n = 0 \/ b.n = 0 THEN NaN ELSE Infinity(Sgn(a.n) * Sgn(b.n))
         [] OTHER -> LET g1 == Gcd(Abs(a.n), b.d)
                         g2 == Gcd(Abs(b.n), a.d) IN
                     Num((a.n \div g1) * (b.n \div g2), (a.d \div g2) * (b.d \div g1)) :
       a \in {ToNumber(x)}, b \in {ToNumber(y)}})

\* a / b on doubles: x/0 is +-Infinity, 0/0 is NaN
Div(x, y) ==
  LET Sgn(i) == IF i < 0 THEN -1 ELSE 1 IN
  The({CASE a.k = "nan" \/ b.k = "nan" -> NaN
         [] a.k = "inf" -> IF b.k = "inf" THEN NaN ELSE Infinity(Sgn(a.n) * Sgn(b.n))
         [] b.k = "inf" -> Zero
         [] b.n = 0 -> IF a.n = 0 THEN NaN ELSE Infinity(Sgn(a.n))
         [] OTHER -> Mul(a, Num(Sgn(b.n) * b.d, Sgn(b.n) * b.n)) :
       a \in {ToNumber(x)}, b \in {ToNumber(y)}})

\* a + b on numbers
Add(x, y) ==
  The({CASE a.k = "nan" \/ b.k = "nan" -> NaN
         [] a.k = "inf" \/ b.k = "inf" -> IF a.k = "inf" THEN a ELSE b
         [] OTHER -> Num(a.n * b.d + b.n * a.d, a.d * b.d) : a \in {x}, b \in {y}})

\* a > 0
Positive(x) == The({(a.k = "num" /\ a.n > 0) \/ (a.k = "inf" /\ a.n > 0) : a \in {x}})

(* ------------------------ metric normalization -------------------------- *)

\* rows of one search response the aggregation sums
MaxResults == 2

\* cost_micros per currency unit
MicrosPerUnit == 1000000

\* calculateCtr without the factor 100
CalculateCtrFraction(clicks, impressions) ==
  The({IF Positive(i) THEN Div(c, i) ELSE Zero :
       c \in {ParseInt(JsOr(clicks, Str(<<"0">>)))},
       i \in {ParseInt(JsOr(impressions, Str(<<"0">>)))}})

\* calculateCtr: i > 0 ? (c / i) * 100 : 0
CalculateCtr(clicks, impressions) ==
  The({IF Positive(i) THEN Mul(Div(c, i), Num(100, 1)) ELSE Zero :
       c \in {ParseInt(JsOr(clicks, Str(<<"0">>)))},
       i \in {ParseInt(JsOr(impressions, Str(<<"0">>)))}})

\* calculateCpc: c > 0 ? cost / c : 0
CalculateCpc(costMicros, clicks) ==
  The({IF Positive(c) THEN Div(cost, c) ELSE Zero :
       cost \in {Div(ParseInt(JsOr(costMicros, Str(<<"0">>))), Num(MicrosPerUnit, 1))},
       c \in {ParseInt(JsOr(clicks, Str(<<"0">>)))}})

\* calculateCpm: i > 0 ? (cost / i) * 1000 : 0
CalculateCpm(costMicros, impressions) ==
  The({IF Positive(i) THEN Mul(Div(cost, i), Num(1000, 1)) ELSE Zero :
       cost \in {Div(ParseInt(JsOr(costMicros, Str(<<"0">>))), Num(MicrosPerUnit, 1))},
       i \in {ParseInt(JsOr(impressions, Str(<<"0">>)))}})

\* calculateRoas: cost > 0 ? value / cost : 0
CalculateRoas(conversionsValue, costMicros) ==
  The({IF Positive(cost) THEN Div(value, cost) ELSE Zero :
       value \in {ParseFloat(JsOr(conversionsValue, Str(<<"0">>)))},
       cost \in {Div(ParseInt(JsOr(costMicros, Str(<<"0">>))), Num(MicrosPerUnit, 1))}})

\* getCampaigns of the Google adapter: the metrics of one result row
GoogleCampaignMetrics(raw) ==
  [impressions |-> ParseInt(JsOr(raw.impressions, Str(<<"0">>))),
   clicks |-> ParseInt(JsOr(raw.clicks, Str(<<"0">>))),
   spend |-> Div(JsOr(raw.costMicros, Zero), Num(MicrosPerUnit, 1)),
   conversions |-> ParseFloat(JsOr(raw.conversions, Str(<<"0">>))),
   ctr |-> CalculateCtr(raw.clicks, raw.impressions),
   cpc |-> CalculateCpc(raw.costMicros, raw.clicks),
   cpm |-> CalculateCpm(raw.costMicros, raw.impressions),
   roas |-> CalculateRoas(raw.conversionsValue, raw.costMicros),
   costPerConversion |-> Absent]

\* getAccountMetrics of the Google adapter: the totals over the result rows
\* and the ratios derived from the totals
GoogleAccountMetrics(results) ==
  LET RECURSIVE Total(_, _)
      Total(i, f) ==
        IF i = 0 THEN Zero
        ELSE Add(Total(i - 1, f),
                 IF f \in {"conversions", "conversionsValue"}
                   THEN ParseFloat(JsOr(results[i][f], Str(<<"0">>)))
                   ELSE ParseInt(JsOr(results[i][f], Str(<<"0">>))))
  IN The({[impressions |-> totalImpressions,
           clicks |-> totalClicks,
           spend |-> totalSpend,
           conversions |-> totalConversions,
           ctr |-> CalculateCtr(totalClicks, totalImpressions),
           cpc |-> CalculateCpc(totalCostMicros, totalClicks),
           cpm |-> CalculateCpm(totalCostMicros, totalImpressions),
           roas |-> IF Positive(totalSpend) THEN Div(totalConversionsValue, totalSpend)
                    ELSE Zero,
           costPerConversion |-> IF Positive(totalConversions)
                                   THEN Div(totalSpend, totalConversions) ELSE Zero] :
          totalImpressions \in {Total(Len(results), "impressions")},
          totalClicks \in {Total(Len(results), "clicks")},
          totalCostMicros \in {Total(Len(results), "costMicros")},
          totalConversions \in {Total(Len(results), "conversions")},
          totalConversionsValue \in {Total(Len(results), "conversionsValue")},
          totalSpend \in {Div(Total(Len(results), "costMicros"), Num(MicrosPerUnit, 1))}})

\* transformMetrics of the TikTok adapter: the platform's own figures, parsed
TransformMetrics(raw) ==
  IF raw = Undefined
    THEN [impressions |-> Zero, clicks |-> Zero, spend |-> Zero, conversions |-> Absent,
          ctr |-> Zero, cpc |-> Zero, cpm |-> Zero, roas |-> Absent,
          costPerConversion |-> Absent]
    ELSE [impressions |-> JsOr(ParseFloat(raw.impressions), Zero),
          clicks |-> JsOr(ParseFloat(raw.clicks), Zero),
          spend |-> JsOr(ParseFloat(raw.spend), Zero),
          conversions |-> JsOr(ParseFloat(raw.conversion), Zero),
          ctr |-> JsOr(ParseFloat(raw.ctr), Zero),
          cpc |-> JsOr(ParseFloat(raw.cpc), Zero),
          cpm |-> JsOr(ParseFloat(raw.cpm), Zero),
          roas |-> IF Truthy(raw.total_purchase_value) /\ Truthy(raw.spend)
                     THEN Div(ParseFloat(raw.total_purchase_value), ParseFloat(raw.spend))
                     ELSE Undefined,
          costPerConversion |-> JsOr(ParseFloat(raw.cost_per_conversion), Zero)]

\* one normalization: the adapter, its input and its output
Normalize(adapter, raw) ==
  /\ normalized.adapter = None
  /\ normalized' =
       [adapter |-> adapter, raw |-> raw,
        metrics |-> CASE adapter = "google-campaign" -> GoogleCampaignMetrics(raw)
                      [] adapter = "google-account" -> GoogleAccountMetrics(raw)
                      [] adapter = "tiktok" -> TransformMetrics(raw)]
  /\ UNCHANGED <<now, proc, sessionVars, gateVars, platformVars, cacheVars>>

\* metrics of one row of a Google search response: int64 fields arrive as
\* decimal strings, doubles as numbers, a field at its default is left out
GoogleRows ==
  {[impressions |-> i, clicks |-> c, costMicros |-> m,
    conversions |-> IF cv THEN Num(5, 2) ELSE Undefined,
    conversionsValue |-> IF cv THEN Num(300, 1) ELSE Undefined] :
   i \in {Undefined, Str(<<"0">>), Str(<<"1", "0", "0", "0">>)},
   c \in {Undefined, Str(<<"5", "0">>)},
   m \in {Undefined, Str(<<"1", "0", "0", "0", "0", "0", "0", "0", "0">>)},
   cv \in BOOLEAN}

\* the results of one search response
GoogleResults == UNION {[1..k -> GoogleRows] : k \in 0..MaxResults}

\* metrics of one row of a TikTok report: every figure a string, the ratios
\* as the platform reports them (0.00 where it has nothing to divide by)
TikTokRows ==
  {[impressions |-> Str(IF i THEN <<"1", "0", "0", "0">> ELSE <<"0">>),
    clicks |-> Str(IF c THEN <<"5", "0">> ELSE <<"0">>),
    spend |-> Str(IF sp THEN <<"1", "0", "0">> ELSE <<"0", ".", "0", "0">>),
    ctr |-> Str(IF c THEN <<"5", ".", "0", "0">> ELSE <<"0", ".", "0", "0">>),
    cpc |-> Str(IF c /\ sp THEN <<"2", ".", "0", "0">> ELSE <<"0", ".", "0", "0">>),
    cpm |-> Str(IF i /\ sp THEN <<"1", "0", "0", ".", "0", "0">> ELSE <<"0", ".", "0", "0">>),
    conversion |-> IF cv = "none" THEN Undefined
                   ELSE Str(IF cv = "some" THEN <<"4">> ELSE <<"0">>),
    cost_per_conversion |->
      IF cv = "none" THEN Undefined
      ELSE Str(IF cv = "some" /\ sp THEN <<"2", "5", ".", "0", "0">> ELSE <<"0", ".", "0", "0">>),
    total_purchase_value |-> tpv] :
   i \in BOOLEAN, c \in BOOLEAN, sp \in BOOLEAN, cv \in {"none", "zero", "some"},
   tpv \in {Undefined, Str(<<"0", ".", "0", "0">>), Str(<<"3", "0", "0">>)}}

\* the adapters' normalizations over the rows the platforms return
NextMetrics ==
  \/ \E raw \in GoogleRows : Normalize("google-campaign", raw)
  \/ \E results \in GoogleResults : Normalize("google-account", results)
  \/ \E raw \in TikTokRows \cup {Undefined} : Normalize("tiktok", raw)

SpecMetrics == Init /\ [][NextMetrics]_vars

\* the message of a platform's error response
Messages == {"invalid campaign id"}

(* ------------------------------ metrics cache --------------------------- *)
(* One date range is asked for throughout, so a key is the platform, the   *)
(* user (Google only) and the ad account.                                   *)

\* metricData / metricsData as the jsonb column keeps it: JSON drops a key
\* whose value is undefined and writes NaN and Infinity as null
Jsonb(m) ==
  [f \in DOMAIN m |->
     CASE m[f].k = "undef" -> Absent
       [] m[f].k \in {"nan", "inf"} -> [k |-> "null", n |-> 0, d |-> 1, s |-> <<>>]
       [] OTHER -> m[f]]

\* the cache rows of a key, of any age
CacheRows(plat, u, acct) ==
  {c \in cache : c.plat = plat /\ c.user = u /\ c.acct = acct}

\* INSERT of a cache row; put is not a column: it remembers the object that
\* was handed to save
InsertCache(plat, u, acct, m) ==
  /\ cache' = cache \cup {[id |-> nextCacheId, plat |-> plat, user |-> u, acct |-> acct,
                           data |-> Jsonb(m), put |-> m, expiresAt |-> now + CacheTtl]}
  /\ nextCacheId' = nextCacheId + 1

\* the Google lookup without its expiry condition
GoogleCachedAnyAge(u, acct) == CacheRows("google", u, acct)

\* getAccountMetrics of Google: findOne({ userId, customerId, dateRange,
\* expiresAt: MoreThan(new Date()) })
GoogleCachedMetrics(u, acct) ==
  {c \in CacheRows("google", u, acct) : c.expiresAt > now}

\* getAccountMetrics of TikTok, first await, getCachedMetrics: findOne with
\* expiresAt: LessThan(new Date()), and the row is handed out only if
\* new Date() < cached.expiresAt
TikTokGetAccountMetrics(p, acct) ==
  LET q == [proc[p] EXCEPT !.op = "account-metrics", !.plat = "tiktok",
                           !.arg = [NoArg EXCEPT !.acct = acct]]
      rows == {c \in CacheRows("tiktok", 0, acct) : c.expiresAt < now} IN
  /\ proc[p].pc = "idle"
  /\ nextCacheId <= MaxCacheRows
  /\ \/ /\ rows = {}
        /\ Set(p, [q EXCEPT !.pc = "tm_call"])
     \/ \E cached \in rows :
          Set(p, IF now < cached.expiresAt
                   THEN Done([q EXCEPT !.found = cached.id, !.data = cached.data], NoRow, "ok")
                   ELSE [q EXCEPT !.pc = "tm_call"])
  /\ UNCHANGED <<now, sessionVars, gateVars, platformVars, cacheVars, normalized>>

\* getAccountMetrics of TikTok without the test of response.code: the
\* request goes on to transformMetrics and cacheMetrics whatever the answer
TikTokMetricsCallAnyCode(p) ==
  LET q == [proc[p] EXCEPT !.calls = @ + 1] IN
  /\ proc[p].pc = "tm_call"
  /\ \/ \E m \in Messages :
          Set(p, [q EXCEPT !.failure = m, !.data = TransformMetrics(Undefined),
                           !.pc = "tm_find"])
     \/ Set(p, [q EXCEPT !.data = TransformMetrics(Undefined), !.pc = "tm_find"])
  /\ UNCHANGED <<now, sessionVars, gateVars, platformVars, cacheVars, normalized>>

\* getAccountMetrics of TikTok: makeApiCall; a code other than 0 ends the
\* request with success: false, else transformMetrics of the first row
TikTokMetricsCall(p) ==
  LET q == [proc[p] EXCEPT !.calls = @ + 1] IN
  /\ proc[p].pc = "tm_call"
  /\ \/ \E m \in Messages :
          Set(p, Done([q EXCEPT !.failure = m, !.msg = m], NoRow, "platform-error"))
     \/ \E raw \in {r \in TikTokRows : r.conversion = Undefined
                                       /\ r.total_purchase_value = Undefined
                                       /\ r.spend = Str(<<"1", "0", "0">>)
                                       /\ r.clicks = Str(<<"5", "0">>)
                                       /\ r.impressions = Str(<<"1", "0", "0", "0">>)}
                      \cup {Undefined} :
          Set(p, [q EXCEPT !.data = TransformMetrics(raw), !.pc = "tm_find"])
  /\ UNCHANGED <<now, sessionVars, gateVars, platformVars, cacheVars, normalized>>

\* cacheMetrics: findOne({ advertiserId, metricType, entityId, dateRange })
TikTokCacheFind(p) ==
  LET q == proc[p]
      rows == CacheRows("tiktok", 0, q.arg.acct) IN
  /\ q.pc = "tm_find"
  /\ \/ rows = {} /\ Set(p, [q EXCEPT !.found = 0, !.pc = "tm_save"])
     \/ \E c \in rows : Set(p, [q EXCEPT !.found = c.id, !.pc = "tm_save"])
  /\ UNCHANGED <<now, sessionVars, gateVars, platformVars, cacheVars, normalized>>

\* cacheMetrics: the row found gets metricData and expiresAt, else a row is
\* created; save
TikTokCacheSave(p) ==
  LET q == proc[p] IN
  /\ q.pc = "tm_save"
  /\ IF q.found # 0
       THEN /\ cache' = {IF c.id = q.found
                           THEN [c EXCEPT !.data = Jsonb(q.data), !.put = q.data,
                                          !.expiresAt = now + CacheTtl]
                           ELSE c : c \in cache}
            /\ UNCHANGED nextCacheId
       ELSE InsertCache("tiktok", 0, q.arg.acct, q.data)
  /\ Set(p, Done([q EXCEPT !.found = 0], NoRow, "ok"))
  /\ UNCHANGED <<now, sessionVars, gateVars, platformVars, normalized>>

\* getAccountMetrics of Google, for a user whose session has customer acct
\* selected: the cache lookup
GoogleGetAccountMetrics(p, u, acct) ==
  LET q == [proc[p] EXCEPT !.op = "account-metrics", !.plat = "google", !.user = u,
                           !.arg = [NoArg EXCEPT !.acct = acct]]
      rows == GoogleCachedMetrics(u, acct) IN
  /\ proc[p].pc = "idle"
  /\ nextCacheId <= MaxCacheRows
  /\ \/ /\ rows = {}
        /\ Set(p, [q EXCEPT !.pc = "gm_call"])
     \/ \E cached \in rows :
          Set(p, Done([q EXCEPT !.found = cached.id, !.data = cached.data], NoRow, "ok"))
  /\ UNCHANGED <<now, sessionVars, gateVars, platformVars, cacheVars, normalized>>

\* getAccountMetrics of Google: makeSearchRequest, which throws on a response
\* that is not ok, then the totals and the ratios
GoogleMetricsCall(p) ==
  LET q == [proc[p] EXCEPT !.calls = @ + 1] IN
  /\ proc[p].pc = "gm_call"
  /\ \/ \E m \in Messages :
          Set(p, Done([q EXCEPT !.failure = m, !.msg = m], NoRow, "platform-error"))
     \/ \E results \in {<<>>} \cup {<<r>> : r \in {g \in GoogleRows :
                                                   /\ g.impressions = Str(<<"1", "0", "0", "0">>)
                                                   /\ g.clicks # Undefined
                                                   /\ g.costMicros # Undefined
                                                   /\ g.conversions = Undefined}} :
          Set(p, [q EXCEPT !.data = GoogleAccountMetrics(results), !.pc = "gm_save"])
  /\ UNCHANGED <<now, sessionVars, gateVars, platformVars, cacheVars, normalized>>

\* getAccountMetrics of Google: metricsCacheRepository.save of a new object,
\* an INSERT
GoogleMetricsSave(p) ==
  LET q == proc[p] IN
  /\ q.pc = "gm_save"
  /\ InsertCache("google", q.user, q.arg.acct, q.data)
  /\ Set(p, Done(q, NoRow, "ok"))
  /\ UNCHANGED <<now, sessionVars, gateVars, platformVars, normalized>>

\* the metrics caches of both adapters, one request at a time
NextCache ==
  \/ Tick
  \/ \E p \in One : Return(p)
  \/ \E p \in One, acct \in Accounts : TikTokGetAccountMetrics(p, acct)
  \/ \E p \in One : TikTokMetricsCall(p)
  \/ \E p \in One : TikTokCacheFind(p)
  \/ \E p \in One : TikTokCacheSave(p)
  \/ \E p \in One, u \in Subscribers, acct \in Accounts : GoogleGetAccountMetrics(p, u, acct)
  \/ \E p \in One : GoogleMetricsCall(p)
  \/ \E p \in One : GoogleMetricsSave(p)

SpecCache == Init /\ [][NextCache]_vars

\* account-metrics requests for one key whose awaits interleave
NextCacheRace ==
  \/ Tick
  \/ \E p \in Procs : Return(p)
  \/ \E p \in Procs : TikTokGetAccountMetrics(p, "a")
  \/ \E p \in Procs : TikTokMetricsCall(p)
  \/ \E p \in Procs : TikTokCacheFind(p)
  \/ \E p \in Procs : TikTokCacheSave(p)
  \/ \E p \in Procs, u \in Subscribers : GoogleGetAccountMetrics(p, u, "a")
  \/ \E p \in Procs : GoogleMetricsCall(p)
  \/ \E p \in Procs : GoogleMetricsSave(p)

SpecCacheRace == Init /\ [][NextCacheRace]_vars

(* ------------------------------ bulk listings --------------------------- *)

\* the detail lookup's result is kept even when the lookup failed
CollectAll(out, item, outcome) == Append(out, item)

\* one item of a bulk listing: pushed if its detail lookup gave details,
\* passed over if it threw or came back empty
Collect(out, item, outcome) == IF outcome = "details" THEN Append(out, item) ELSE out

\* getCampaigns of the TikTok service: makeApiCall campaign/get; a code other
\* than 0 gives success: false with response.message
TikTokServiceGetCampaigns(p, withRange) ==
  LET q == [proc[p] EXCEPT !.op = "list-campaigns", !.plat = "tiktok", !.calls = @ + 1] IN
  /\ proc[p].pc = "idle"
  /\ \/ \E m \in Messages :
          Set(p, Done([q EXCEPT !.failure = m, !.msg = m], NoRow, "platform-error"))
     \/ Set(p, IF withRange THEN [q EXCEPT !.pc = "tc_metrics"] ELSE Done(q, NoRow, "ok"))
  /\ UNCHANGED <<now, sessionVars, gateVars, platformVars, cacheVars, normalized>>

\* getCampaigns with a date range: getCampaignMetricsBulk, whose failure is a
\* result with success: false; the metrics are attached only on success and
\* the listing returns success: true either way
TikTokCampaignsMetrics(p) ==
  LET q == [proc[p] EXCEPT !.calls = @ + 1] IN
  /\ proc[p].pc = "tc_metrics"
  /\ \/ \E m \in Messages : Set(p, Done([q EXCEPT !.failure = m], NoRow, "ok"))
     \/ Set(p, Done(q, NoRow, "ok"))
  /\ UNCHANGED <<now, sessionVars, gateVars, platformVars, cacheVars, normalized>>

\* getAccessibleCustomers, for a user with a session: makeApiRequest
\* customers:listAccessibleCustomers; its exception is logged and rethrown
GoogleGetAccessibleCustomers(p, u) ==
  LET q == [proc[p] EXCEPT !.op = "list-customers", !.plat = "google", !.user = u,
                           !.calls = @ + 1] IN
  /\ proc[p].pc = "idle"
  /\ \/ \E m \in Messages :
          Set(p, Done([q EXCEPT !.failure = m, !.msg = m], NoRow, "platform-error"))
     \/ \E items \in UNION {[1..k -> Accounts] : k \in 0..MaxItems} :
          Set(p, IF items = <<>> THEN Done(q, NoRow, "ok")
                 ELSE [q EXCEPT !.items = items, !.todo = items, !.pc = "gc_detail"])
  /\ UNCHANGED <<now, sessionVars, gateVars, platformVars, cacheVars, normalized>>

\* the loop of getAccessibleCustomers: getCustomerDetails gives the details,
\* or null for an empty result and for a request that threw
GoogleCustomerDetails(p) ==
  LET q == proc[p] IN
  /\ q.pc = "gc_detail"
  /\ \E outcome \in {"details", "empty", "error"} :
       LET r == [q EXCEPT !.calls = @ + 1, !.todo = Tail(q.todo),
                          !.outcomes = Append(q.outcomes, outcome),
                          !.out = Collect(q.out, Head(q.todo), outcome)] IN
       Set(p, IF r.todo = <<>> THEN Done(r, NoRow, "ok") ELSE r)
  /\ UNCHANGED <<now, sessionVars, gateVars, platformVars, cacheVars, normalized>>

\* getCreatives: getAds, whose failure ends the listing with its error; the
\* creative ids of the ads, each once
TikTokGetCreatives(p) ==
  LET q == [proc[p] EXCEPT !.op = "list-creatives", !.plat = "tiktok", !.calls = @ + 1] IN
  /\ proc[p].pc = "idle"
  /\ \/ \E m \in Messages :
          Set(p, Done([q EXCEPT !.failure = m, !.msg = m], NoRow, "platform-error"))
     \/ \E items \in UNION {[1..k -> Accounts] : k \in 0..MaxItems} :
          /\ \A i, j \in 1..Len(items) : items[i] = items[j] => i = j
          /\ Set(p, IF items = <<>> THEN Done(q, NoRow, "ok")
                    ELSE [q EXCEPT !.items = items, !.todo = items, !.pc = "tv_detail"])
  /\ UNCHANGED <<now, sessionVars, gateVars, platformVars, cacheVars, normalized>>

\* getCreatives, Promise.all over the ids: getCreativeInfo throws on a code
\* other than 0, the item becomes null and is filtered out; the results keep
\* the order of the ids whatever order the lookups finish in
TikTokCreativeInfo(p) ==
  LET q == proc[p] IN
  /\ q.pc = "tv_detail"
  /\ \E outcome \in {"details", "error"} :
       LET r == [q EXCEPT !.calls = @ + 1, !.todo = Tail(q.todo),
                          !.outcomes = Append(q.outcomes, outcome),
                          !.out = Collect(q.out, Head(q.todo), outcome)] IN
       Set(p, IF r.todo = <<>> THEN Done(r, NoRow, "ok") ELSE r)
  /\ UNCHANGED <<now, sessionVars, gateVars, platformVars, cacheVars, normalized>>

\* the listings of both adapters, requests overlapping
NextListing ==
  \/ \E p \in Procs : Return(p)
  \/ \E p \in Procs, withRange \in BOOLEAN : TikTokServiceGetCampaigns(p, withRange)
  \/ \E p \in Procs : TikTokCampaignsMetrics(p)
  \/ \E p \in Procs, u \in Subscribers : GoogleGetAccessibleCustomers(p, u)
  \/ \E p \in Procs : GoogleCustomerDetails(p)
  \/ \E p \in Procs : TikTokGetCreatives(p)
  \/ \E p \in Procs : TikTokCreativeInfo(p)

SpecListing == Init /\ [][NextListing]_vars

\* the ad accounts a platform checkout names
PlatformBatches == UNION {[1..k -> Accounts] : k \in 0..2}

\* platform subscriptions and their seats, requests overlapping
NextPlatform ==
  \/ \E p \in Procs : Return(p)
  \/ \E p \in Procs, u \in Subscribers, plat \in SeatPlatforms, st \in CheckoutStatuses,
        quantity \in 1..MaxQuantity, b \in PlatformBatches :
       PlatformCheckoutCompleted(p, u, plat, st, quantity, b)
  \/ \E p \in Procs : PlatformCheckoutAddSeat(p)
  \/ \E id \in 1..MaxPlatformSubs : PlatformSubscriptionDeleted(id)
  \/ \E p \in Procs, u \in Subscribers, plat \in SeatPlatforms, acct \in Accounts :
       AddPlatformSeat(p, u, plat, acct)
  \/ \E p \in Procs : CanAddMoreSeatsFind(p)
  \/ \E p \in Procs : CanAddMoreSeatsCount(p)
  \/ \E p \in Procs : AddPlatformSeatExisting(p)
  \/ \E p \in Procs : AddPlatformSeatInsert(p)
  \/ \E p \in Procs, u \in Subscribers, plat \in SeatPlatforms, acct \in Accounts :
       RemovePlatformSeat(p, u, plat, acct)
  \/ \E p \in Procs : RemovePlatformSeatUpdate(p)

SpecPlatform == Init /\ [][NextPlatform]_vars

\* platform subscriptions and their seats, one request at a time
NextPlatformSeq ==
  \/ \E p \in One : Return(p)
  \/ \E p \in One, u \in Subscribers, plat \in SeatPlatforms, st \in CheckoutStatuses,
        quantity \in 1..MaxQuantity, b \in PlatformBatches :
       PlatformCheckoutCompleted(p, u, plat, st, quantity, b)
  \/ \E p \in One : PlatformCheckoutAddSeat(p)
  \/ \E id \in 1..MaxPlatformSubs : PlatformSubscriptionDeleted(id)
  \/ \E p \in One, u \in Subscribers, plat \in SeatPlatforms, acct \in Accounts :
       AddPlatformSeat(p, u, plat, acct)
  \/ \E p \in One : CanAddMoreSeatsFind(p)
  \/ \E p \in One : CanAddMoreSeatsCount(p)
  \/ \E p \in One : AddPlatformSeatExisting(p)
  \/ \E p \in One : AddPlatformSeatInsert(p)
  \/ \E p \in One, u \in Subscribers, plat \in SeatPlatforms, acct \in Accounts :
       RemovePlatformSeat(p, u, plat, acct)
  \/ \E p \in One : RemovePlatformSeatUpdate(p)

SpecPlatformSeq == Init /\ [][NextPlatformSeq]_vars

\* platform seats and the can-access check, one request at a time
NextPlatformAccess ==
  \/ \E p \in One : Return(p)
  \/ \E p \in One, u \in Subscribers, plat \in SeatPlatforms, st \in CheckoutStatuses,
        quantity \in 1..MaxQuantity, b \in PlatformBatches :
       PlatformCheckoutCompleted(p, u, plat, st, quantity, b)
  \/ \E p \in One : PlatformCheckoutAddSeat(p)
  \/ \E p \in One, u \in Subscribers, plat \in SeatPlatforms, acct \in Accounts :
       AddPlatformSeat(p, u, plat, acct)
  \/ \E p \in One : CanAddMoreSeatsFind(p)
  \/ \E p \in One : CanAddMoreSeatsCount(p)
  \/ \E p \in One : AddPlatformSeatExisting(p)
  \/ \E p \in One : AddPlatformSeatInsert(p)
  \/ \E p \in One, u \in Subscribers, plat \in SeatPlatforms, acct \in Accounts :
       RemovePlatformSeat(p, u, plat, acct)
  \/ \E p \in One : RemovePlatformSeatUpdate(p)
  \/ \E p \in One, u \in Users, plat \in SeatPlatforms, acct \in Accounts :
       CheckAccess(p, u, plat, acct)
  \/ \E p \in One : CheckAccessSeat(p)

SpecPlatformAccess == Init /\ [][NextPlatformAccess]_vars

(* ------------------------------ claims --------------------------------- *)

Finished(p, op) == proc[p].pc = "done" /\ proc[p].op = op

\* C1: a session that Get hands to its caller never carries a token whose
\* expiry is in the past.
C1_NoExpiredTokenReturned ==
  \A p \in Procs :
    (Finished(p, "get") /\ proc[p].ret # NoRow) => ~IsExpired(proc[p].ret)

\* C2: a Get whose refresh failed returns not found and leaves no session
\* row of that user behind.
C2_FailedGetLeavesNoRow ==
  \A p \in Procs :
    (Finished(p, "get") /\ proc[p].sess # NoRow /\ IsExpired(proc[p].sess)
       /\ proc[p].res = "absent")
      => RowsOf(proc[p].plat, proc[p].user) = {}

\* C3: a Get that finds an expired session whose refresh token the provider
\* still honours makes exactly one refresh call and returns a session whose
\* expiry is in the future.
C3_ExpiredGetRefreshesOnce ==
  \A p \in Procs :
    (Finished(p, "get") /\ proc[p].sess # NoRow /\ IsExpired(proc[p].sess)
       /\ proc[p].sess.refreshToken \in validRT)
      => /\ proc[p].calls = 1
         /\ proc[p].ret # NoRow
         /\ proc[p].ret.tokenExpiresAt > now

\* C4: after a Refresh that failed, whatever the reason, no session row of
\* that user and platform is left.
C4_FailedRefreshRemovesSession ==
  \A p \in Procs :
    (Finished(p, "refresh") /\ proc[p].res \in {"failed", "unauthorized", "error"})
      => RowsOf(proc[p].plat, proc[p].user) = {}

\* C5: a Save that follows an earlier Save of the same user and platform
\* leaves exactly one session row; the row has the access token of the second
\* call, and each optional field has the second call's value where the call
\* supplies one and the existing row's value where it does not.
C5_SaveUpsertsInPlace ==
  \A p \in Procs :
    Finished(p, "save") =>
      LET q == proc[p] IN
      /\ Cardinality(RowsOf(q.plat, q.user)) = 1
      /\ \A r \in RowsOf(q.plat, q.user) :
           /\ r.accessToken = q.arg.at
           /\ q.sess # NoRow =>
                /\ r.id = q.sess.id
                /\ r.refreshToken =
                     IF q.arg.rt # None THEN q.arg.rt ELSE q.sess.refreshToken
                /\ r.accountId =
                     IF q.arg.acct # None THEN q.arg.acct ELSE q.sess.accountId
                /\ r.accountName =
                     IF q.arg.name # None THEN q.arg.name ELSE q.sess.accountName
                /\ r.tokenExpiresAt =
                     IF q.arg.exp # NoExpiry THEN q.arg.exp ELSE q.sess.tokenExpiresAt

\* a second TikTok Save that supplies a new access token and an account but
\* neither refresh token nor expiry, over a row that has both
C5_Witness ==
  \E p \in Procs :
    LET q == proc[p] IN
    /\ Finished(p, "save") /\ q.plat = "tiktok" /\ q.sess # NoRow
    /\ q.arg.at # q.sess.accessToken
    /\ q.arg.rt = None /\ q.sess.refreshToken \in RefreshTokens
    /\ q.arg.exp = NoExpiry /\ q.sess.tokenExpiresAt # NoExpiry
    /\ q.arg.acct # None /\ q.sess.accountId = None
    /\ \E r \in sessions : r.id = q.sess.id /\ r.refreshToken = q.sess.refreshToken

\* C6: storage never holds two session rows of one user on one platform,
\* also when two connect requests overlap.
C6_AtMostOneSessionPerUser ==
  \A plat \in Platforms, u \in Users : Cardinality(RowsOf(plat, u)) <= 1

\* C7: no call for a platform's data goes out unless the gate has let the
\* user through for the platform and for the very account the call reads.
C7_DataCallIsGated ==
  \A p \in Procs :
    proc[p].target # None =>
      /\ proc[p].vsub = "pass"
      /\ proc[p].vacct = "pass"
      /\ proc[p].sess.accountId = proc[p].target

\* the active seats of a user on a platform, read off the seat table
ActiveSeatsOf(u, plat) ==
  {t \in seats : t.userId = u /\ t.platform = plat /\ t.status = "active"}

\* C8: ValidateSubscription answers Forbidden exactly when the user has no
\* active seat on the platform.
C8_ForbiddenIffNoActiveSeat ==
  \A p \in Procs :
    Finished(p, "validate-subscription") =>
      (proc[p].res = "forbidden" <=> ActiveSeatsOf(proc[p].user, proc[p].plat) = {})

\* Forbidden although the user has a removed seat on the platform and an
\* active seat exists for another user or another platform
C8_Witness ==
  \E p \in Procs :
    /\ Finished(p, "validate-subscription")
    /\ proc[p].res = "forbidden"
    /\ \E t \in seats : t.userId = proc[p].user /\ t.platform = proc[p].plat
                        /\ t.status = "removed"
    /\ \E t \in seats : t.status = "active"
                        /\ (t.userId # proc[p].user \/ t.platform # proc[p].plat)

\* C9: ValidateAccountAccess answers Forbidden when no active seat of the
\* user on the platform is for exactly that account, and lets the user
\* through once there is such a seat.
C9_ForbiddenUnlessSeatForAccount ==
  \A p \in Procs :
    Finished(p, "validate-account") =>
      (proc[p].res = "forbidden" <=>
         ~ \E t \in ActiveSeatsOf(proc[p].user, proc[p].plat) :
               t.adAccountId = proc[p].arg.acct)

\* let through for one account while the user also holds an active seat on
\* the platform for another account
C9_Witness ==
  \E p \in Procs :
    /\ Finished(p, "validate-account")
    /\ proc[p].res = "pass"
    /\ \E t \in ActiveSeatsOf(proc[p].user, proc[p].plat) :
         t.adAccountId # proc[p].arg.acct

\* C10: the gate lets a user through only while the user's organization
\* subscription is active, trialing or past_due; with the subscription
\* canceled the gate checks fail.
C10_GateFollowsSubscriptionStatus ==
  \A p \in Procs :
    (/\ Finished(p, "validate-subscription") \/ Finished(p, "validate-account")
     /\ proc[p].res = "pass")
      => GetOrganizationSubscription(proc[p].user) # 0

\* C11: whatever checkout webhooks, add-seat and remove-seat requests have run
\* or are running, a platform subscription never has more active seats than
\* its quantity
C11_ActiveSeatsWithinQuantity ==
  \A b \in platformSubs : CountActiveSeats(b.id) <= b.quantity

\* C12: the seat-limit check answers true exactly when the subscription has
\* fewer active seats than its quantity; on false the add-seat request is
\* rejected with 'Seat limit reached' and no seat row is inserted.
C12_CanAddIffBelowQuantity ==
  [][\A p \in Procs :
       proc[p].pc = "ps_can_count" /\ proc'[p].pc # "ps_can_count" =>
         /\ proc'[p].canAdd = "true" <=>
              \E b \in platformSubs :
                b.id = proc[p].sub /\ CountActiveSeats(b.id) < b.quantity
         /\ proc'[p].canAdd = "false" =>
              /\ platformSeats' = platformSeats
              /\ proc'[p].pc = "done" /\ proc'[p].res = "seat-limit"]_vars

\* C12: a subscription of quantity 2 has two active seats and a further
\* add-seat request ended with 'Seat limit reached', the table still at two rows
C12_Witness ==
  \E p \in Procs, b \in platformSubs :
    /\ Finished(p, "add-platform-seat") /\ proc[p].res = "seat-limit"
    /\ proc[p].sub = b.id /\ proc[p].canAdd = "false"
    /\ b.quantity = 2 /\ CountActiveSeats(b.id) = 2
    /\ Cardinality({t \in platformSeats : t.subscriptionId = b.id}) = 2

\* C13: removing a seat deletes no row; the seat that is removed stays in its
\* table with status inactive and a removal timestamp, for platform seats and
\* for organization seats alike.
C13_RemovedSeatKeptInactive ==
  [][/\ {t.id : t \in seats} \subseteq {t.id : t \in seats'}
     /\ {t.id : t \in platformSeats} \subseteq {t.id : t \in platformSeats'}
     /\ \A p \in Procs :
          /\ proc[p].pc = "ps_remove" /\ proc'[p].pc # "ps_remove" =>
               \A t \in platformSeats' :
                 t.subscriptionId = proc[p].sub /\ t.adAccountId = proc[p].arg.acct =>
                   t.status = "inactive" /\ t.removedAt # NoDate
          /\ proc[p].pc = "rs_deact" /\ proc'[p].pc # "rs_deact" =>
               \A t \in seats' :
                 t.id = proc[p].seat => t.status = "inactive" /\ t.removedAt # NoDate]_vars

\* C14: no ratio an adapter hands out is NaN or Infinity, and a ratio is 0
\* whenever its denominator is 0: ctr and cpm with impressions 0, cpc with
\* clicks 0, roas with spend 0, costPerConversion with conversions 0 (a key the
\* adapter's object does not have is not a ratio it hands out).
C14_ZeroDenominatorGivesZero ==
  normalized.adapter # None =>
    LET m == normalized.metrics IN
    /\ \A f \in {"ctr", "cpc", "cpm", "roas", "costPerConversion"} : m[f].k \notin {"nan", "inf"}
    /\ m.impressions = Zero => m.ctr = Zero /\ m.cpm = Zero
    /\ m.clicks = Zero => m.cpc = Zero
    /\ m.spend = Zero => m.roas \in {Zero, Absent}
    /\ m.conversions = Zero => m.costPerConversion \in {Zero, Absent}

\* C15: the Google adapter reports impressions and clicks as the integers of
\* the raw strings, spend = cost_micros / 1000000, and, over a positive
\* denominator, ctr = clicks / impressions * 100, cpc = spend / clicks and
\* cpm = spend / impressions * 1000; for a campaign row and, over the summed
\* rows, for the account. (The raw strings are read here by table, not by the
\* adapter's parser.)
C15_GoogleNormalization ==
  normalized.adapter \in {"google-campaign", "google-account"} =>
    LET rows == IF normalized.adapter = "google-campaign" THEN <<normalized.raw>>
                ELSE normalized.raw
        Value(v) == CASE v = Str(<<"1", "0", "0", "0">>) -> 1000
                    [] v = Str(<<"5", "0">>) -> 50
                    [] v = Str(<<"1", "0", "0", "0", "0", "0", "0", "0", "0">>) -> 100000000
                    [] OTHER -> 0
        RECURSIVE Sum(_, _)
        Sum(i, f) == IF i = 0 THEN 0 ELSE Sum(i - 1, f) + Value(rows[i][f])
        impressions == Sum(Len(rows), "impressions")
        clicks == Sum(Len(rows), "clicks")
        micros == Sum(Len(rows), "costMicros")
        m == normalized.metrics IN
    /\ m.impressions = Num(impressions, 1)
    /\ m.clicks = Num(clicks, 1)
    /\ m.spend = Num(micros, 1000000)
    /\ impressions > 0 => /\ m.ctr = Num(clicks * 100, impressions)
                          /\ m.cpm = Num(micros, 1000 * impressions)
    /\ clicks > 0 => m.cpc = Num(micros, 1000000 * clicks)

\* C15: the campaign row {impressions: "1000", clicks: "50", cost_micros:
\* "100000000"} came out as impressions 1000, clicks 50, spend 100, ctr 5,
\* cpc 2, cpm 100
C15_Witness ==
  /\ normalized.adapter = "google-campaign"
  /\ normalized.raw.impressions = Str(<<"1", "0", "0", "0">>)
  /\ normalized.raw.clicks = Str(<<"5", "0">>)
  /\ normalized.raw.costMicros = Str(<<"1", "0", "0", "0", "0", "0", "0", "0", "0">>)
  /\ normalized.metrics.impressions = Num(1000, 1)
  /\ normalized.metrics.clicks = Num(50, 1)
  /\ normalized.metrics.spend = Num(100, 1)
  /\ normalized.metrics.ctr = Num(5, 1)
  /\ normalized.metrics.cpc = Num(2, 1)
  /\ normalized.metrics.cpm = Num(100, 1)

\* C16: a lookup of a key whose latest stored entry has not expired returns
\* the payload that was stored, as it was handed to the store, in the metrics
\* cache of either platform.
C16_CacheRoundTrip ==
  [][\A p \in One, plat \in {"tiktok", "google"}, acct \in Accounts :
       /\ proc[p].pc = "idle" /\ proc'[p].pc # "idle"
       /\ proc'[p].op = "account-metrics" /\ proc'[p].plat = plat /\ proc'[p].arg.acct = acct
       => \A c \in CacheRows(plat, proc'[p].user, acct) :
            /\ c.expiresAt > now
            /\ \A e \in CacheRows(plat, proc'[p].user, acct) : e.id <= c.id
            => proc'[p].pc = "done" /\ proc'[p].data = c.put]_vars

\* C17: a lookup never hands out an entry whose expiresAt is not after now,
\* and changes no cache row, stale rows included.
C17_LookupSkipsAndKeepsStale ==
  [][\A p \in One :
       /\ proc[p].pc = "idle" /\ proc'[p].pc # "idle"
       /\ proc'[p].op = "account-metrics"
       => /\ cache' = cache
          /\ proc'[p].found # 0 =>
               \E c \in cache : c.id = proc'[p].found /\ c.expiresAt > now]_vars

\* C17: a lookup has just passed over the stale entry of its key, which is
\* still in the table
C17_Witness ==
  \E p \in One :
    /\ proc[p].op = "account-metrics" /\ proc[p].plat = "google"
    /\ proc[p].pc = "gm_call" /\ proc[p].found = 0
    /\ \E c \in CacheRows("google", proc[p].user, proc[p].arg.acct) : c.expiresAt <= now

\* C18: while the cache holds an unexpired entry for the key, an
\* account-metrics request makes no call to the platform: it is never at its
\* API call, and it ends with the cached payload and no call counted.
C18_UnexpiredEntryMeansNoCall ==
  \A p \in One :
    /\ proc[p].op = "account-metrics"
    /\ \E c \in CacheRows(proc[p].plat, proc[p].user, proc[p].arg.acct) : c.expiresAt > now
    => /\ proc[p].pc \notin {"tm_call", "gm_call"}
       /\ proc[p].pc = "done" /\ proc[p].found # 0 => proc[p].calls = 0

\* C19: a listing or metrics operation that got a non-success response from
\* the platform, other than for the detail lookup of one item of a bulk
\* listing, ends reporting failure with the platform's message.
C19_PlatformFailureIsReported ==
  \A p \in Procs :
    /\ proc[p].pc = "done" /\ proc[p].failure # None
    /\ proc[p].op \in {"list-campaigns", "list-customers", "list-creatives", "account-metrics"}
    => proc[p].res = "platform-error" /\ proc[p].msg = proc[p].failure

C21_ExpiredGetAlwaysRefreshes ==
  [][\A p \in Procs :
       /\ (/\ proc[p].pc = "idle" /\ proc'[p].op = "get" /\ proc'[p].plat = "google"
           /\ proc'[p].sess # NoRow
           /\ proc'[p].sess.tokenExpiresAt # NoExpiry
           /\ proc'[p].sess.tokenExpiresAt < now)
          => proc'[p].pc = "g_ref_find"
       /\ (proc[p].pc = "g_ref_fetch" /\ proc'[p].pc # "g_ref_fetch")
          => proc'[p].calls = proc[p].calls + 1]_vars

\* C21: two Get requests have read the same expired session row and each has
\* made its refresh call before either stored a new token
C21_Witness ==
  /\ \A p \in Procs :
       /\ proc[p].op = "get" /\ proc[p].plat = "google"
       /\ proc[p].pc = "g_ref_save" /\ proc[p].calls = 1
       /\ proc[p].sess # NoRow /\ proc[p].sess.tokenExpiresAt < now
  /\ proc["p1"].sess = proc["p2"].sess
  /\ proc["p1"].sess \in sessions

\* C22: a write of the metrics cache leaves its key with a single entry that
\* a lookup can return, the one holding the payload and the expiry of that
\* write, also when another request missed on the same key at the same time
\* and wrote before it.
C22_LastWriteWins ==
  [][\A p \in Procs :
       /\ proc[p].pc \in {"tm_save", "gm_save"} /\ proc'[p].pc = "done"
       => \E c \in cache' :
            /\ c.put = proc[p].data /\ c.expiresAt = now + CacheTtl
            /\ {e \in cache' : /\ e.plat = proc[p].plat /\ e.user = proc[p].user
                               /\ e.acct = proc[p].arg.acct /\ e.expiresAt > now} = {c}]_vars

\* C23: Put is an upsert: once a write of the metrics cache is done, storage
\* holds one row for the key and no more, earlier rows that expired included,
\* and that row expires one TTL after the write.
C23_PutIsUpsert ==
  [][\A p \in One :
       /\ proc[p].pc \in {"tm_save", "gm_save"} /\ proc'[p].pc = "done"
       => LET rows == {e \in cache' : /\ e.plat = proc[p].plat /\ e.user = proc[p].user
                                      /\ e.acct = proc[p].arg.acct} IN
          /\ Cardinality(rows) = 1
          /\ \A c \in rows : c.expiresAt = now + CacheTtl]_vars

\* C24: only a request whose fetch succeeded after a miss writes the metrics
\* cache: a step that changes the cache is the save of a request that made its
\* call and got no failure, and a fetch that fails ends the request with an
\* error and leaves the cache as it was.
C24_OnlySuccessfulFetchWrites ==
  [][/\ cache' # cache =>
          \E p \in Procs :
            /\ proc[p].pc \in {"tm_save", "gm_save"} /\ proc'[p].pc = "done"
            /\ proc[p].calls = 1 /\ proc[p].failure = None /\ proc'[p].res = "ok"
     /\ \A p \in Procs :
          (proc[p].pc \in {"tm_call", "gm_call"} /\ proc'[p].failure # None)
          => /\ proc'[p].pc = "done" /\ proc'[p].res = "platform-error"
             /\ cache' = cache]_vars

\* C24: a fetch failed after the lookup passed over the expired entry of its
\* key, and the entry is still as it was written
C24_Witness ==
  \E p \in Procs :
    /\ proc[p].pc = "done" /\ proc[p].op = "account-metrics"
    /\ proc[p].res = "platform-error" /\ proc[p].calls = 1
    /\ \E c \in CacheRows(proc[p].plat, proc[p].user, proc[p].arg.acct) :
         c.expiresAt <= now /\ c.data = Jsonb(c.put)

\* C25: no two seat rows of one table have the same subscription and the
\* same ad account, in the platform seats and in the organization seats.
C25_OneSeatRowPerAccount ==
  /\ \A s, t \in platformSeats :
       s.subscriptionId = t.subscriptionId /\ s.adAccountId = t.adAccountId => s.id = t.id
  /\ \A s, t \in seats :
       s.subId = t.subId /\ s.adAccountId = t.adAccountId => s.id = t.id

\* C26: the failure of a refresh whose refresh token the provider has
\* superseded deletes no session that another refresh has renewed in the
\* meantime: the row that refresh stored, with its expiry not yet past,
\* is still in the table after the failing request's cleanup.
C26_RenewedSessionSurvives ==
  [][\A p \in Procs :
       /\ proc[p].pc = "t_delete" /\ proc'[p].pc = "done"
       /\ proc[p].rsess.refreshToken # None
       /\ proc[p].rsess.refreshToken \notin validRT
       => \A r \in RowsOf("tiktok", proc[p].user) :
            /\ r # proc[p].rsess
            /\ r.tokenExpiresAt # NoExpiry /\ r.tokenExpiresAt >= now
            /\ \E q \in Procs \ {p} :
                 /\ proc[q].op = "refresh" /\ proc[q].pc = "done"
                 /\ proc[q].res = "ok" /\ proc[q].ret = r
            => r \in sessions']_vars

\* C27: the platform can-access check reports hasAccess for an ad account
\* only while the subscription has an active seat for it: a seat that was
\* removed grants nothing.
C27_RemovedSeatGrantsNoAccess ==
  \A p \in One :
    Finished(p, "can-access") /\ proc[p].res = "has-access"
    => \E t \in GetPlatformSeat(proc[p].sub, proc[p].arg.acct) : t.status = "active"

\* C28: the deactivation step of a remove-seat request leaves every seat row
\* of another owner as it was.
C28_RemoveSeatTouchesOwnSeatsOnly ==
  [][\A p \in One :
       /\ proc[p].op = "remove-seat"
       /\ proc[p].pc = "rs_deact" /\ proc'[p].pc # "rs_deact"
       => \A t \in seats : t.userId # proc[p].user => t \in seats']_vars

\* C29: once an add-seats or remove-seat request has ended and no request is
\* in flight, the quantity of the subscription it worked on is the number of
\* active seats of that subscription.
C29_QuantityIsActiveSeatCount ==
  \A p \in Procs :
    /\ proc[p].pc = "done" /\ proc[p].res \in {"seats-added", "seat-removed"}
    /\ \A q \in Procs : proc[q].pc \in {"idle", "done"}
    => \A b \in orgSubs :
         b.id = proc[p].sub =>
           b.quantity = Cardinality({t \in seats : t.subId = b.id /\ t.status = "active"})

\* C30: the step that ends a successful Refresh leaves the session row with
\* the selected account id and the display name it had before, on TikTok and
\* on Google Ads.
C30_RefreshKeepsSelectedAccount ==
  [][\A p \in One :
       /\ proc[p].op = "refresh" /\ proc[p].pc # "done"
       /\ proc'[p].pc = "done" /\ proc'[p].res = "ok"
       => /\ RowsOf(proc[p].plat, proc[p].user) # {}
          /\ \A r \in RowsOf(proc[p].plat, proc[p].user) :
               \E t \in sessions' :
                 /\ t.id = r.id /\ t = proc'[p].ret
                 /\ t.accountId = r.accountId
                 /\ t.accountName = r.accountName]_vars

\* C30: a Google Ads refresh has ended well on a session with customer a
\* selected and a display name, and the stored row still has both
C30_Witness ==
  \E p \in One :
    /\ Finished(p, "refresh") /\ proc[p].plat = "google" /\ proc[p].res = "ok"
    /\ proc[p].ret \in sessions
    /\ proc[p].ret.accountId = "a" /\ proc[p].ret.accountName # None

====
